---- MODULE Spec2Model ----
(***************************************************************************)
(* Model of the computational core of the medical regression learning     *)
(* tool: the Kaplan-Meier estimator (CoxRegression.js and the cox branch   *)
(* of Home), the sum-of-squares line fit (LinearRegression,                *)
(* MultipleRegression and the linear / multiple branches of Home) and the  *)
(* view state that drives them.                                            *)
(*                                                                         *)
(* JavaScript numbers are modelled as exact rationals <<n, d>> with d > 0, *)
(* extended with the three non-finite values a division can produce:       *)
(* <<1, 0>> = Infinity, <<-1, 0>> = -Infinity, <<0, 0>> = NaN.             *)
(* Rounding of IEEE doubles and the sign of zero are not modelled.         *)
(***************************************************************************)
EXTENDS Integers, Sequences, FiniteSets

VARIABLES
    kmPc,        \* position of the Kaplan-Meier run: "idle", "loop", "done"
    kmImpl,      \* which copy runs: "cox" (calculateKaplanMeier) or "home" (inline)
    kmData,      \* the input array `data`
    kmI,         \* index (1-based) of the next record forEach visits
    n,           \* `n`, the at-risk count
    currentProb, \* `currentProb`
    survival,    \* `survival`, the output array
    divisions,   \* history: number of divisions (n - 1) / n executed by the run
    fitPc,       \* position of the line fit: "idle", "done"
    xValues,     \* `xValues`, the projected X sequence
    yValues,     \* `yValues`, the projected Y sequence
    fit,         \* the values computed by the fit (xMean .. intercept)
    fitView,     \* the display whose copy of the fit has run
    medicalExamples,    \* the module-level datasets of each component's module
    route,              \* the path whose component App has mounted
    selectedRegression, \* Home: `selectedRegression`
    selectedDataset,    \* Home: `selectedDataset`; the views: `selectedExample`
    selectedFactor,     \* `selectedFactor`
    noiseLevel,         \* `noiseLevel`
    svg,                \* the elements under the mounted component's <svg>
    memo,               \* history: one earlier render of a fitted linear chart
    panel,              \* Home: the numbers its interpretation panel shows
    poPc,        \* position of poissonSample: "idle", "loop", "done"
    poLambda,    \* `lambda`, the rate
    poL,         \* `L`
    poK,         \* `k`
    poP,         \* `p`
    poDrawn,     \* history: the values Math.random() returned to this call
    poResult,    \* the value returned
    dsPc,        \* position of a dataset's initialiser: "idle", "fill", "ready"
    dsKey,       \* which dataset of which module is being built
    dsData,      \* the array: what Array.from has produced so far, then `data`
    dsDraws      \* history: the draws of each record, in generation order

kmVars == <<kmPc, kmImpl, kmData, kmI, n, currentProb, survival, divisions>>
fitVars == <<fitPc, xValues, yValues, fit, fitView>>
viewVars == <<medicalExamples, route, selectedRegression, selectedDataset,
              selectedFactor, noiseLevel, svg, memo, panel>>
poVars == <<poPc, poLambda, poL, poK, poP, poDrawn, poResult>>
dsVars == <<dsPc, dsKey, dsData, dsDraws>>
vars == <<kmVars, fitVars, viewVars, poVars, dsVars>>

-----------------------------------------------------------------------------
(* Bounds of the model *)

MaxLen  == 3   \* longest Kaplan-Meier input
MaxTime == 2   \* largest event time of a record
MaxN    == 3   \* longest X / Y sequence given to the line fit on its own
SampleCount == 3 \* samples per dataset of the views (50 in the program)
MaxOnes  == 2   \* draws equal to 1 within one call of the sampler
MaxDraws == 9   \* draws of one call of the sampler

-----------------------------------------------------------------------------
(* JavaScript numbers *)

Abs(i) == IF i < 0 THEN -i ELSE i
Sign(i) == IF i < 0 THEN -1 ELSE IF i = 0 THEN 0 ELSE 1

RECURSIVE GCD(_, _)
GCD(a, b) == IF b = 0 THEN a ELSE GCD(b, a % b)

NaN == <<0, 0>>
PosInf == <<1, 0>>
NegInf == <<-1, 0>>
Undefined == <<>>

\* the canonical form of the quotient p / q of two integers
Norm(p, q) ==
    IF q = 0 THEN <<Sign(p), 0>>
    ELSE LET g == GCD(Abs(p), Abs(q))
             s == Sign(q)
         IN  <<(s * p) \div g, (s * q) \div g>>

Num(i) == <<i, 1>>
IsNaN(a) == a = NaN
IsFinite(a) == a[2] # 0
IsInf(a) == a[2] = 0 /\ a[1] # 0

\* the operands are reduced before they are multiplied, to keep the integers small
Add(a, b) ==
    IF IsInf(a) /\ IsInf(b) THEN (IF a = b THEN a ELSE NaN)
    ELSE IF ~IsFinite(a) \/ ~IsFinite(b)
         THEN Norm(a[1] * b[2] + b[1] * a[2], a[2] * b[2])
    ELSE LET g == GCD(a[2], b[2])
         IN  Norm(a[1] * (b[2] \div g) + b[1] * (a[2] \div g), (a[2] \div g) * b[2])
Neg(a) == <<-a[1], a[2]>>
Sub(a, b) == Add(a, Neg(b))
Mul(a, b) ==
    IF ~IsFinite(a) \/ ~IsFinite(b) \/ a[1] = 0 \/ b[1] = 0
    THEN Norm(a[1] * b[1], a[2] * b[2])
    ELSE LET g == GCD(Abs(a[1]), b[2])
             h == GCD(Abs(b[1]), a[2])
         IN  Norm((a[1] \div g) * (b[1] \div h), (a[2] \div h) * (b[2] \div g))
\* a / b; x / 0 is +-Infinity, 0 / 0 and Infinity / Infinity are NaN
Div(a, b) ==
    IF IsNaN(a) \/ IsNaN(b) THEN NaN
    ELSE IF IsInf(b) THEN (IF IsInf(a) THEN NaN ELSE Num(0))
    ELSE IF b[1] = 0 THEN <<Sign(a[1]), 0>>
    ELSE Mul(a, Norm(b[2], b[1]))
\* comparisons with NaN are false
Less(a, b) ==
    /\ ~IsNaN(a) /\ ~IsNaN(b) /\ a # b
    /\ IF IsInf(a) \/ IsInf(b) THEN a = NegInf \/ b = PosInf
       ELSE a[1] * b[2] < b[1] * a[2]
Leq(a, b) == ~IsNaN(a) /\ ~IsNaN(b) /\ (a = b \/ Less(a, b))

\* ToBoolean of a number or undefined: undefined, 0 and NaN are falsy
Truthy(v) == v # Undefined /\ v # NaN /\ v # Num(0)
\* a || b
OrElse(a, b) == IF Truthy(a) THEN a ELSE b

RECURSIVE SumFirst(_, _)
SumFirst(s, k) == IF k = 0 THEN Num(0) ELSE Add(SumFirst(s, k - 1), s[k])
\* d3.sum
SumSeq(s) == SumFirst(s, Len(s))

-----------------------------------------------------------------------------
(* Kaplan-Meier estimator *)

\* event times the generators produce: Math.max(1, ...)
Times == {Num(t) : t \in 1..MaxTime}

\* a cancerSurvival record {survivalTime, censored} (age, stage are not read)
CancerRecord(t, c) == [survivalTime |-> t, eventTime |-> Undefined, censored |-> c]
\* a heartFailure record {eventTime, censored}
HeartRecord(t, c) == [survivalTime |-> Undefined, eventTime |-> t, censored |-> c]

CancerRecords == {CancerRecord(t, c) : t \in Times, c \in BOOLEAN}
HeartRecords == {HeartRecord(t, c) : t \in Times, c \in BOOLEAN}

SeqsUpTo(S, k) == UNION {[1..m -> S] : m \in 0..k}

\* the arrays given to the estimator: one schema per dataset; the order of the
\* records is not restricted, since the estimator itself does not sort
KMInputs == SeqsUpTo(CancerRecords, MaxLen) \cup SeqsUpTo(HeartRecords, MaxLen)

\* the time a point carries
RecordTimeOnlySurvival(impl, d) == d.survivalTime
RecordTimeEventOnly(impl, d) == IF impl = "cox" THEN d.eventTime ELSE d.survivalTime
RecordTime(impl, d) ==
    IF impl = "cox" THEN OrElse(d.survivalTime, d.eventTime)
    ELSE d.survivalTime

\* (n - 1) / n
KMFactorOffByOne(m) == Div(Num(m), Num(m + 1))
KMFactor(m) == Div(Sub(Num(m), Num(1)), Num(m))

\* currentProb after the `if (!d.censored)` statement
KMUpdateAlways(prob, m, d) == Mul(prob, KMFactor(m))
KMUpdate(prob, m, d) ==
    IF ~d.censored THEN Mul(prob, KMFactor(m)) ELSE prob

\* the object pushed for record d
KMPoint(impl, d, prob) ==
    [time |-> RecordTime(impl, d), probability |-> prob, censored |-> d.censored]

\* n after the record: n--
KMNextAtRiskEventsOnly(m, d) == IF d.censored THEN m ELSE m - 1
KMNextAtRiskStuck(m, d) == m
KMNextAtRiskByTwo(m, d) == m - 2
KMNextAtRisk(m, d) == m - 1

\* `data` after the callback has run on record i: the callback reads
\* d.censored, d.survivalTime and d.eventTime and assigns to none of them
KMDataAfterMarked(data, i) == [data EXCEPT ![i].censored = TRUE]
KMDataAfter(data, i) == data

\* `let survival = []`
KMInitialSurvivalSeeded == <<[time |-> Num(0), probability |-> Num(1), censored |-> FALSE]>>
KMInitialSurvival == <<>>

KMIdle ==
    /\ kmPc = "idle" /\ kmImpl = "cox" /\ kmData = <<>> /\ kmI = 1
    /\ n = 0 /\ currentProb = Num(1) /\ survival = <<>> /\ divisions = 0

\* entry: let n = data.length; let survival = []; let currentProb = 1
KMCall(impl, data) ==
    /\ kmPc \in {"idle", "done"}
    /\ kmPc' = "loop"
    /\ kmImpl' = impl
    /\ kmData' = data
    /\ kmI' = 1
    /\ n' = Len(data)
    /\ survival' = KMInitialSurvival
    /\ currentProb' = Num(1)
    /\ divisions' = 0
    /\ UNCHANGED <<fitVars, viewVars, poVars, dsVars>>

\* one iteration of data.forEach
KMStep ==
    /\ kmPc = "loop"
    /\ kmI <= Len(kmData)
    /\ LET d == kmData[kmI]
           prob == KMUpdate(currentProb, n, d)
       IN  /\ currentProb' = prob
           /\ divisions' = IF ~d.censored THEN divisions + 1 ELSE divisions
           /\ survival' = Append(survival, KMPoint(kmImpl, d, prob))
           /\ n' = KMNextAtRisk(n, d)
    /\ kmI' = kmI + 1
    /\ kmData' = KMDataAfter(kmData, kmI)
    /\ UNCHANGED <<kmPc, kmImpl, fitVars, viewVars, poVars, dsVars>>

\* return survival
KMReturn ==
    /\ kmPc = "loop"
    /\ kmI > Len(kmData)
    /\ kmPc' = "done"
    /\ UNCHANGED <<kmImpl, kmData, kmI, n, currentProb, survival, divisions, fitVars, viewVars, poVars, dsVars>>

\* calculateKaplanMeier(data) in the Cox view
KMCallCox == \E data \in KMInputs : KMCall("cox", data)
\* the inline copy in Home, which only has the cancerSurvival dataset
KMCallHome == \E data \in SeqsUpTo(CancerRecords, MaxLen) : KMCall("home", data)

-----------------------------------------------------------------------------
(* Properties of the Kaplan-Meier estimator *)

\* the value of whichever time field the record's schema has
FieldTime(d) == IF d.survivalTime # Undefined THEN d.survivalTime ELSE d.eventTime
\* probability of the point before point i (1 before the first point)
PrevProb(i) == IF i = 1 THEN Num(1) ELSE survival[i - 1].probability
AllUncensored(data) == \A i \in 1..Len(data) : ~data[i].censored
Censoring(data) == [i \in 1..Len(data) |-> data[i].censored]

\* C1: a finished run returns exactly M points for M records, and the i-th
\* point carries the time and the censored flag of the i-th record, in order.
C1_OutputMatchesInput ==
    kmPc = "done" =>
        /\ Len(survival) = Len(kmData)
        /\ \A i \in 1..Len(kmData) :
              /\ survival[i].time = FieldTime(kmData[i])
              /\ survival[i].censored = kmData[i].censored

C1_Witness ==
    /\ kmPc = "done" /\ Len(kmData) >= 2 /\ Len(survival) = Len(kmData)
    /\ kmData[1].eventTime # Undefined
    /\ survival[1].time # survival[2].time
    /\ survival[1].censored # survival[2].censored

\* C2: in every output the probability never increases from one point to the
\* next, and a point is strictly below its predecessor (below 1 for the first
\* point) only if its record is uncensored.
C2_NonIncreasingStep ==
    \A i \in 1..Len(survival) :
        /\ Leq(survival[i].probability, PrevProb(i))
        /\ Less(survival[i].probability, PrevProb(i)) => ~survival[i].censored

C2_Witness ==
    /\ kmPc = "done" /\ Len(survival) >= 3
    /\ survival[1].censored /\ survival[1].probability = Num(1)
    /\ ~survival[2].censored /\ Less(survival[2].probability, Num(1))
    /\ survival[3].censored /\ survival[3].probability = survival[2].probability

\* C3 as claimed: every emitted point has a probability in (0, 1].
C3_ProbabilityInHalfOpenRange ==
    \A i \in 1..Len(survival) :
        /\ Less(Num(0), survival[i].probability)
        /\ Leq(survival[i].probability, Num(1))

\* C3 amended: every emitted point has a probability in [0, 1]; it is 0 exactly
\* for the point of the last record of the input when that record is uncensored.
C3_ProbabilityInClosedRange ==
    \A i \in 1..Len(survival) :
        /\ Leq(Num(0), survival[i].probability)
        /\ Leq(survival[i].probability, Num(1))
        /\ survival[i].probability = Num(0)
              <=> (i = Len(kmData) /\ ~kmData[i].censored)

C3_Witness ==
    /\ kmPc = "done" /\ Len(survival) >= 2
    /\ survival[Len(survival)].probability = Num(0)
    /\ Less(Num(0), survival[Len(survival) - 1].probability)

\* C4: for M records that are all uncensored the i-th point has probability
\* (M - i) / M, the last point has probability 0 and every point has
\* censored = false; M = 3 gives 2/3, 1/3, 0.
C4_AllUncensored ==
    AllUncensored(kmData) =>
        /\ \A i \in 1..Len(survival) :
              /\ survival[i].probability = Norm(Len(kmData) - i, Len(kmData))
              /\ survival[i].censored = FALSE
        /\ (kmPc = "done" /\ Len(kmData) > 0)
              => survival[Len(kmData)].probability = Num(0)
        /\ (kmPc = "done" /\ Len(kmData) = 3)
              => [i \in 1..3 |-> survival[i].probability]
                    = <<Norm(2, 3), Norm(1, 3), Num(0)>>

C4_Witness ==
    /\ kmPc = "done" /\ Len(kmData) = 3 /\ AllUncensored(kmData)
    /\ survival[2].probability = Norm(1, 3)

\* C5: a censored record emits a point at the probability of the preceding
\* point (1 for the first record) and still reduces the at-risk count: the
\* i-th record, when uncensored, multiplies the probability by (n - 1) / n
\* with n = M - (i - 1); [uncensored, censored, uncensored] gives 2/3, 2/3, 0.
C5_CensoredKeepsLevel ==
    /\ \A i \in 1..Len(survival) :
          IF survival[i].censored
          THEN survival[i].probability = PrevProb(i)
          ELSE survival[i].probability
                  = Mul(PrevProb(i), Norm(Len(kmData) - i, Len(kmData) - i + 1))
    /\ (kmPc = "done" /\ Censoring(kmData) = <<FALSE, TRUE, FALSE>>)
          => [i \in 1..3 |-> survival[i].probability]
                = <<Norm(2, 3), Norm(2, 3), Num(0)>>

C5_Witness ==
    /\ kmPc = "done" /\ Censoring(kmData) = <<FALSE, TRUE, FALSE>>
    /\ survival[2].probability = Norm(2, 3)
    /\ survival[3].probability = Num(0)

\* C6: called on an empty sequence the estimator returns an empty sequence
\* and performs no division.
C6_EmptyInput ==
    (kmPc = "done" /\ kmData = <<>>) => (survival = <<>> /\ divisions = 0)

C6_Witness == kmPc = "done" /\ kmData = <<>> /\ kmImpl = "cox" /\ n = 0

\* C20: in a run over M records the at-risk count is M before the first
\* record, is one less after every record, censored or not, is at least 1
\* whenever a record is still to be processed (so whenever (n - 1) / n is
\* computed), and is 0 when the run ends.
C20_AtRiskCountsDown ==
    kmPc \in {"loop", "done"} =>
        /\ n = Len(kmData) - Len(survival)
        /\ Len(survival) = kmI - 1
        /\ kmI <= Len(kmData) => n >= 1
        /\ kmPc = "done" => n = 0
\* a run of the Home copy over MaxLen records, censored and uncensored, has ended
C20_Witness ==
    /\ kmPc = "done" /\ kmImpl = "home" /\ Len(kmData) = MaxLen /\ n = 0
    /\ kmData[1].censored /\ ~kmData[2].censored
    /\ divisions = MaxLen - 1

\* the input is not in ascending order of time
OutOfOrder(data) ==
    \E i \in 1..(Len(data) - 1) : Less(FieldTime(data[i + 1]), FieldTime(data[i]))

\* C21: the estimator does not sort and does not modify its input: no step of
\* a run, from the entry to the return, changes the input sequence or one of
\* its records, and the i-th point emitted is the point of the i-th record
\* of the input, also when the input is not in ascending order of time.
C21_InputKeptInOrder ==
    /\ [][kmPc = "loop" => kmData' = kmData]_vars
    /\ [](\A i \in 1..Len(survival) :
              /\ survival[i].time = FieldTime(kmData[i])
              /\ survival[i].censored = kmData[i].censored)

\* a finished run over an input whose first record is later than its second,
\* with both an uncensored and a censored record
C21_Witness ==
    /\ kmPc = "done" /\ Len(kmData) >= 2 /\ OutOfOrder(kmData)
    /\ Less(survival[2].time, survival[1].time)
    /\ ~kmData[1].censored /\ kmData[2].censored

-----------------------------------------------------------------------------
(* Sum-of-squares line fit, as written in LinearRegression, in                *)
(* MultipleRegression and in the linear and multiple branches of Home         *)

\* d3.mean and d3.sum over an array of numbers
Mean(s) == Div(SumSeq(s), Num(Len(s)))
\* Math.pow(v, 2)
Square(v) == Mul(v, v)

\* d3.sum(xValues.map(x => Math.pow(x - xMean, 2)))
FitSsxx(X, xMean) == SumSeq([i \in 1..Len(X) |-> Square(Sub(X[i], xMean))])
\* d3.sum(data.map(d => (d.x - xMean) * (d.y - yMean)))
FitSsxy(X, Y, xMean, yMean) ==
    SumSeq([i \in 1..Len(X) |-> Mul(Sub(X[i], xMean), Sub(Y[i], yMean))])
\* d3.sum(xValues.map((x, i) => (x - xMean) * (yValues[i] - yMean)))
FitSsxyReversed(X, Y, xMean, yMean) ==
    SumSeq([i \in DOMAIN X |-> Mul(Sub(X[i], xMean), Sub(Y[Len(X) + 1 - i], yMean))])
FitSsxyIndexed(X, Y, xMean, yMean) ==
    SumSeq([i \in DOMAIN X |-> Mul(Sub(X[i], xMean), Sub(Y[i], yMean))])
\* slope = ssxy / ssxx
FitSlopeInverted(ssxy, ssxx) == Div(ssxx, ssxy)
FitSlope(ssxy, ssxx) == Div(ssxy, ssxx)
\* intercept = yMean - slope * xMean
FitIntercept(yMean, slope, xMean) == Sub(yMean, Mul(slope, xMean))

\* d3.min, d3.max over a non-empty array of numbers
MinSeq(s) == CHOOSE v \in {s[i] : i \in 1..Len(s)} :
                \A w \in {s[i] : i \in 1..Len(s)} : Leq(v, w)
MaxSeq(s) == CHOOSE v \in {s[i] : i \in 1..Len(s)} :
                \A w \in {s[i] : i \in 1..Len(s)} : Leq(w, v)

\* the default x scale's domain: [d3.min * 0.9, d3.max * 1.1]
ScaleDomain(X) == <<Mul(MinSeq(X), Norm(9, 10)), Mul(MaxSeq(X), Norm(11, 10))>>

\* the points d3.line() gives the path: (d, slope * d + intercept) for d in x.domain()
LinePoints(domain, slope, intercept) ==
    [k \in 1..2 |-> <<domain[k], Add(Mul(slope, domain[k]), intercept)>>]

\* "Calculate and add regression line": the values computed, and the path drawn
LinearFit(X, Y, domain) ==
    LET xMean == Mean(X)
        yMean == Mean(Y)
        ssxx == FitSsxx(X, xMean)
        ssxy == FitSsxy(X, Y, xMean, yMean)
        slope == FitSlope(ssxy, ssxx)
        intercept == FitIntercept(yMean, slope, xMean)
    IN  [xMean |-> xMean, yMean |-> yMean, ssxx |-> ssxx, ssxy |-> ssxy,
         slope |-> slope, intercept |-> intercept,
         line |-> LinePoints(domain, slope, intercept)]

\* the same in MultipleRegression and in the multiple branch of Home, which
\* work on xValues and yValues without an array of {x, y}
FactorFit(X, Y, domain) ==
    LET xMean == Mean(X)
        yMean == Mean(Y)
        ssxx == FitSsxx(X, xMean)
        ssxy == FitSsxyIndexed(X, Y, xMean, yMean)
        slope == FitSlope(ssxy, ssxx)
        intercept == FitIntercept(yMean, slope, xMean)
    IN  [xMean |-> xMean, yMean |-> yMean, ssxx |-> ssxx, ssxy |-> ssxy,
         slope |-> slope, intercept |-> intercept,
         line |-> LinePoints(domain, slope, intercept)]

\* the displays that fit a line
FitViews == {"LinearRegression", "MultipleRegression", "Home.linear", "Home.multiple"}
\* the fit as the display's effect has it
FitIn(view, X, Y, domain) ==
    IF view \in {"LinearRegression", "Home.linear"}
    THEN LinearFit(X, Y, domain) ELSE FactorFit(X, Y, domain)

\* the X / Y sequences the fit is applied to on its own
FitXs == {Num(1), Num(2), Num(3)}
FitYs == {Num(2), Num(4), Num(6)}
FitInputs ==
    UNION {[1..m -> FitXs] \X [1..m -> FitYs] : m \in 2..MaxN}

FitIdle ==
    fitPc = "idle" /\ xValues = <<>> /\ yValues = <<>> /\ fit = <<>> /\ fitView = ""

\* the fit of a display applied to projected sequences X, Y
FitCallIn(view, X, Y) ==
    /\ fitPc = "idle"
    /\ fitPc' = "done"
    /\ fitView' = view
    /\ xValues' = X
    /\ yValues' = Y
    /\ fit' = FitIn(view, X, Y, ScaleDomain(X))
    /\ UNCHANGED <<kmVars, viewVars, poVars, dsVars>>

\* the fit of LinearRegression
FitCall(X, Y) == FitCallIn("LinearRegression", X, Y)
\* the fit of any display
FitAnyIn == \E view \in FitViews, in \in FitInputs : FitCallIn(view, in[1], in[2])

FitAny == \E in \in FitInputs : FitCall(in[1], in[2])

\* the values are locals of one render: they are gone when it ends
FitEnd ==
    /\ fitPc = "done"
    /\ fitPc' = "idle" /\ xValues' = <<>> /\ yValues' = <<>> /\ fit' = <<>>
    /\ fitView' = ""
    /\ UNCHANGED <<kmVars, viewVars, poVars, dsVars>>

-----------------------------------------------------------------------------
(* Properties of the line fit *)

Distinct(s) == Cardinality({s[i] : i \in 1..Len(s)})
\* residual sum of squares of the line y = a * x + b on (X, Y)
RSS(X, Y, a, b) ==
    SumSeq([i \in 1..Len(X) |-> Square(Sub(Y[i], Add(Mul(a, X[i]), b)))])
\* slopes and intercepts compared against: all halves in [-2, 2]
Halves == {Norm(k, 2) : k \in -4..4}
\* sums over the raw samples, for the closed form N*Sxy - Sx*Sy = slope * (N*Sxx - Sx*Sx)
SumX(X) == SumSeq(X)
SumXY(X, Y) == SumSeq([i \in 1..Len(X) |-> Mul(X[i], Y[i])])

\* C7: for X, Y with at least 2 distinct X values the fit returns
\* slope = ssxy / ssxx and intercept = mean(Y) - slope * mean(X), no other
\* (slope, intercept) pair has a smaller residual sum of squares, and
\* X = [1,2,3], Y = [2,4,6] gives slope 2 and intercept 0.
C7_LeastSquares ==
    (fitPc = "done" /\ Distinct(xValues) >= 2) =>
        LET N == Num(Len(xValues))
            best == RSS(xValues, yValues, fit.slope, fit.intercept)
        IN
        /\ IsFinite(fit.slope) /\ IsFinite(fit.intercept)
        /\ Mul(fit.slope, Sub(Mul(N, SumXY(xValues, xValues)),
                              Mul(SumX(xValues), SumX(xValues))))
              = Sub(Mul(N, SumXY(xValues, yValues)), Mul(SumX(xValues), SumX(yValues)))
        /\ Mul(N, fit.intercept) = Sub(SumX(yValues), Mul(fit.slope, SumX(xValues)))
        /\ \A a \in Halves, b \in Halves :
              Leq(best, RSS(xValues, yValues, a, b))
        /\ (xValues = <<Num(1), Num(2), Num(3)>> /\ yValues = <<Num(2), Num(4), Num(6)>>)
              => (fit.slope = Num(2) /\ fit.intercept = Num(0))

C7_Witness ==
    /\ fitPc = "done"
    /\ xValues = <<Num(1), Num(2), Num(3)>> /\ yValues = <<Num(2), Num(4), Num(6)>>
    /\ fit.slope = Num(2) /\ fit.intercept = Num(0)

\* C8 as claimed: for an input whose X values are all identical (ssxx = 0) the
\* fit yields no line: nothing is produced or drawn from a non-finite slope
\* or intercept.
C8_IdenticalXGivesNoLine ==
    (fitPc = "done" /\ Distinct(xValues) = 1) =>
        /\ fit.ssxx = Num(0)
        /\ fit.line = <<>>

-----------------------------------------------------------------------------------------------------------------------------------------------------
(* Math.random: the draws of one evaluation are an input, a stream read in    *)
(* order (cyclically). The streams enumerated keep the rationals small: the   *)
(* heights drawn are 150 and 180, whose squares divide evenly.                *)

\* draws of one render: one per displayed point
Streams ==
    {<<Num(0), Norm(1, 2), Norm(1, 4)>>, <<Norm(3, 4), Norm(1, 4), Norm(1, 2)>>}

\* draws of the module-level generators, one stream per dataset
Loads ==
    {[bpAge |-> <<Num(0), Norm(1, 2), Norm(1, 4), Norm(3, 4), Norm(1, 2), Num(0)>>,
      heightWeight |-> <<Norm(3, 4), Norm(1, 4), Num(0), Norm(1, 2), Norm(1, 4), Norm(3, 4)>>,
      bmiFactors |-> <<Num(0), Norm(1, 2), Norm(1, 4),
                       Norm(3, 4), Num(0), Norm(1, 2),
                       Num(0), Norm(3, 4), Norm(3, 4)>>,
      hospitalStay |-> <<Norm(1, 4), Norm(1, 2), Norm(3, 4),
                         Norm(1, 2), Norm(1, 4), Num(0),
                         Num(0), Norm(3, 4), Norm(1, 4)>>,
      homeBmiFactors |-> <<Num(0), Norm(1, 2), Norm(1, 4), Norm(3, 8), Norm(1, 2), Norm(3, 4),
                           Norm(3, 4), Num(0), Norm(1, 2), Norm(5, 8), Num(0), Norm(1, 4),
                           Num(0), Norm(3, 4), Norm(3, 4), Norm(1, 8), Norm(1, 4), Norm(3, 4)>>,
      heartDisease |-> <<Norm(24, 25), Norm(74, 75), Norm(1, 2),
                         Norm(49, 50), Norm(149, 150), Num(0),
                         Norm(24, 25), Norm(149, 150), Norm(1, 2)>>,
      cancerSurvival |-> <<Norm(1, 2), Norm(3, 4), Norm(1, 2), Norm(7, 20),
                           Norm(1, 2), Num(0), Norm(1, 2), Norm(1, 4),
                           Norm(1, 2), Norm(3, 4), Norm(1, 2), Norm(19, 20)>>,
      hospitalInfections |-> <<Norm(1, 3), Num(0), Norm(3, 4),
                               Norm(1, 9), Norm(3, 5), Num(0),
                               Norm(1, 9), Num(0), Norm(1, 4)>>,
      heartFailure |-> <<Norm(1, 2), Num(0), Norm(1, 2), Norm(1, 4),
                         Norm(1, 2), Norm(3, 4), Norm(1, 2), Norm(3, 10),
                         Norm(1, 2), Num(0), Norm(1, 2), Norm(19, 20)>>,
      sampledInfections |-> <<Norm(1, 9), Num(0), Norm(3, 4), Norm(1, 4),
                              Norm(1, 3), Norm(3, 5), Num(0), Num(0),
                              Norm(1, 3), Num(0), Norm(3, 4), Norm(1, 4)>>,
      adverseEvents |-> <<Num(0), Num(0), Norm(1, 4), Num(0),
                          Norm(1, 3), Norm(3, 4), Norm(1, 4), Num(0),
                          Norm(1, 3), Norm(1, 4), Num(0), Num(0)>>,
      diabetesRisk |-> <<Num(0), Num(0), Norm(1, 2),
                         Norm(1, 2), Norm(1, 2), Num(0),
                         Norm(1, 2), Num(0), Norm(1, 2)>>],
     [bpAge |-> <<Norm(1, 2), Num(0), Norm(1, 4), Norm(1, 4), Norm(3, 4), Norm(1, 2)>>,
      heightWeight |-> <<Num(0), Norm(1, 2), Norm(1, 2), Norm(1, 4), Norm(3, 4), Num(0)>>,
      bmiFactors |-> <<Norm(3, 4), Norm(1, 4), Num(0),
                       Num(0), Norm(3, 4), Norm(1, 2),
                       Norm(3, 4), Num(0), Norm(1, 4)>>,
      hospitalStay |-> <<Num(0), Norm(3, 4), Norm(1, 4),
                         Norm(3, 4), Norm(1, 2), Norm(1, 2),
                         Norm(1, 4), Num(0), Norm(3, 4)>>,
      homeBmiFactors |-> <<Norm(3, 4), Norm(1, 4), Norm(1, 2), Norm(1, 8), Norm(3, 4), Num(0),
                           Num(0), Norm(1, 2), Norm(1, 4), Norm(1, 2), Norm(1, 4), Norm(3, 4),
                           Norm(3, 4), Norm(3, 4), Num(0), Norm(7, 8), Norm(1, 2), Norm(1, 4)>>,
      heartDisease |-> <<Num(0), Num(0), Norm(1, 2),
                         Norm(1, 50), Norm(1, 150), Num(0),
                         Num(0), Norm(1, 150), Norm(1, 2)>>,
      cancerSurvival |-> <<Norm(1, 2), Num(0), Norm(1, 2), Norm(3, 10),
                           Norm(1, 2), Norm(3, 4), Norm(1, 2), Norm(1, 4),
                           Norm(1, 2), Num(0), Norm(1, 2), Norm(7, 20)>>,
      hospitalInfections |-> <<Norm(1, 9), Norm(3, 5), Norm(1, 4),
                               Norm(1, 3), Norm(3, 5), Norm(3, 4),
                               Norm(1, 9), Num(0), Num(0)>>,
      heartFailure |-> <<Norm(1, 2), Norm(3, 4), Norm(1, 2), Norm(7, 20),
                         Norm(1, 2), Num(0), Norm(1, 2), Norm(1, 4),
                         Norm(1, 2), Norm(3, 4), Norm(1, 2), Norm(1, 4)>>,
      sampledInfections |-> <<Norm(1, 3), Num(0), Num(0), Num(0),
                              Norm(1, 9), Norm(3, 5), Norm(3, 4), Norm(1, 4),
                              Norm(1, 9), Num(0), Norm(3, 4), Norm(1, 4)>>,
      adverseEvents |-> <<Norm(1, 3), Norm(1, 4), Norm(1, 4), Num(0),
                          Num(0), Norm(3, 4), Num(0), Num(0),
                          Num(0), Num(0), Norm(1, 4), Num(0)>>,
      diabetesRisk |-> <<Norm(1, 2), Norm(1, 2), Norm(1, 2),
                         Num(0), Num(0), Num(0),
                         Num(0), Norm(1, 2), Norm(1, 2)>>]}

\* the k-th value Math.random() returns
Draw(u, k) == u[((k - 1) % Len(u)) + 1]
\* Math.floor of a finite number
Floor(a) == Num(a[1] \div a[2])

-----------------------------------------------------------------------------
(* Poisson sampler: poissonSample(lambda)                                     *)

\* Math.exp in rationals. For x >= 0, e^x is taken as its Taylor polynomial
\* 1 + x + x^2 / 2 and e^(-x) as the reciprocal of that: like Math.exp, the
\* result is 1 at 0, positive, and grows with x (error below 2 * 10^-5 for
\* |x| <= 0.05, larger further out).
ExpTaylor(x) == Add(Add(Num(1), x), Div(Mul(x, x), Num(2)))
Exp(x) == IF Less(x, Num(0)) THEN Div(Num(1), ExpTaylor(Neg(x))) ELSE ExpTaylor(x)
\* Math.exp(-x)
ExpNeg(x) == Exp(Neg(x))

\* rates given to the sampler
PoissonRates == {Num(0), Norm(1, 2), Num(1), Num(2)}
\* values Math.random() may return to the sampler; 1 is the value a random
\* source that is closed at the upper end could return
Uniforms == {Num(0), Norm(1, 4), Norm(3, 4), Num(1)}

\* number of draws equal to 1
Ones(draws) == Cardinality({i \in 1..Len(draws) : draws[i] = Num(1)})

\* where control goes after the declarations: do { ... } runs its body first
PoAfterEntryTested(l) == IF Less(l, Num(1)) THEN "loop" ELSE "exit"
PoAfterEntry(l) == "loop"

\* p *= Math.random()
PoNextPStuck(prob, u) == prob
PoNextPReplaced(prob, u) == u
PoNextP(prob, u) == Mul(prob, u)

\* while (p > L)
PoContinuesNonStrict(prob, l) == Leq(l, prob)
PoContinues(prob, l) == Less(l, prob)

PoIdle ==
    /\ poPc = "idle" /\ poLambda = Num(0) /\ poL = Num(1) /\ poK = 0
    /\ poP = Num(1) /\ poDrawn = <<>> /\ poResult = Undefined

\* entry: const L = Math.exp(-lambda); let k = 0; let p = 1
PoCall(rate) ==
    /\ poPc \in {"idle", "done"}
    /\ poLambda' = rate
    /\ poL' = ExpNeg(rate)
    /\ poK' = 0
    /\ poP' = Num(1)
    /\ poDrawn' = <<>>
    /\ poResult' = Undefined
    /\ poPc' = PoAfterEntry(ExpNeg(rate))
    /\ UNCHANGED <<kmVars, fitVars, viewVars, dsVars>>

\* one pass of do { k++; p *= Math.random(); } while (p > L), Math.random()
\* returning u
PoBody(u) ==
    /\ poPc = "loop"
    /\ poK < MaxDraws
    /\ u = Num(1) => Ones(poDrawn) < MaxOnes
    /\ poK' = poK + 1
    /\ poP' = PoNextP(poP, u)
    /\ poDrawn' = Append(poDrawn, u)
    /\ poPc' = IF PoContinues(PoNextP(poP, u), poL) THEN "loop" ELSE "exit"
    /\ UNCHANGED <<poLambda, poL, poResult, kmVars, fitVars, viewVars, dsVars>>

\* return k - 1
PoReturn ==
    /\ poPc = "exit"
    /\ poResult' = Num(poK - 1)
    /\ poPc' = "done"
    /\ UNCHANGED <<poLambda, poL, poK, poP, poDrawn, kmVars, fitVars, viewVars, dsVars>>

PoCallAny == \E rate \in PoissonRates : PoCall(rate)
\* a pass whose draw is below 1, as every value of Math.random() is
PoBodyBelowOne == \E u \in Uniforms \ {Num(1)} : PoBody(u)
\* a pass whose draw is exactly 1
PoBodyOne == PoBody(Num(1))

-----------------------------------------------------------------------------
(* Properties of the Poisson sampler *)

IsNonNegativeInteger(v) == v # Undefined /\ v[2] = 1 /\ v[1] >= 0
\* the product of the first m draws of the call
RECURSIVE ProductFirst(_, _)
ProductFirst(draws, m) ==
    IF m = 0 THEN Num(1) ELSE Mul(ProductFirst(draws, m - 1), draws[m])

\* C11: for every rate lambda >= 0 and every sequence of draws, the body of
\* the loop has run at least once when the loop is left, and the value
\* poissonSample returns, k - 1, is a non-negative integer.
C11_NonNegativeCount ==
    /\ poPc \in {"exit", "done"} => poK >= 1 /\ Len(poDrawn) = poK
    /\ poPc = "done" => IsNonNegativeInteger(poResult) /\ poResult = Num(poK - 1)
\* a call with a positive rate has returned a positive count, and a call has
\* returned 0
C11_Witness ==
    /\ poPc = "done" /\ poLambda = Num(2)
    /\ poResult = Num(2) /\ poDrawn = <<Num(1), Norm(3, 4), Num(0)>>

\* C12: poissonSample(0) returns 0 whatever the draws are, a first draw of
\* exactly 1 included, and leaves its loop after exactly one draw.
C12_ZeroRateReturnsZero ==
    poLambda = Num(0) =>
        /\ poL = Num(1)
        /\ poPc = "loop" => poDrawn = <<>>
        /\ poPc \in {"exit", "done"} => Len(poDrawn) = 1 /\ poK = 1
        /\ poPc = "done" => poResult = Num(0)
\* poissonSample(0) has returned after a first draw of exactly 1
C12_Witness ==
    poPc = "done" /\ poLambda = Num(0) /\ poDrawn = <<Num(1)>> /\ poResult = Num(0)

\* C13: under a random source that does not return 1 for ever, every call of
\* poissonSample, whatever its rate, leaves the loop and returns.
C13_Terminates == (poPc = "loop") ~> (poPc = "done")
\* a call with a positive rate has returned although the source returned 1 as
\* often as the model lets it and the slowest descent 3/4 otherwise
C13_Witness ==
    /\ poPc = "done" /\ poLambda = Num(2)
    /\ Ones(poDrawn) = MaxOnes
    /\ \A i \in 1..Len(poDrawn) : poDrawn[i] \in {Num(1), Norm(3, 4)}

\* C22: when poissonSample leaves its loop, the number k of draws it has
\* consumed is the smallest positive number such that the product of the
\* first k draws is <= e^(-lambda): the product of the first j draws is
\* still > e^(-lambda) for every j from 1 to k - 1; the call returns k - 1.
C22_SmallestCount ==
    poPc \in {"exit", "done"} =>
        /\ poK = Len(poDrawn) /\ poK >= 1
        /\ Leq(ProductFirst(poDrawn, poK), ExpNeg(poLambda))
        /\ \A j \in 1..(poK - 1) : Less(ExpNeg(poLambda), ProductFirst(poDrawn, j))
        /\ poPc = "done" => poResult = Num(poK - 1)
\* a call with rate 2 has returned 2 after three draws, the first two of
\* which left the product above e^(-lambda)
C22_Witness ==
    /\ poPc = "done" /\ poLambda = Num(2) /\ poResult = Num(2)
    /\ poDrawn = <<Norm(3, 4), Norm(3, 4), Norm(1, 4)>>
    /\ Less(ExpNeg(poLambda), ProductFirst(poDrawn, 2))

-----------------------------------------------------------------------------
(* Module-level datasets of CoxRegression.js and PoissonRegression.js and    *)
(* the cox and poisson entries of Home, built record by record:              *)
(* Array.from({length}, callback), then .sort(...) where the source has it.  *)

\* Math.max of two numbers
Max(a, b) == IF IsNaN(a) \/ IsNaN(b) THEN NaN ELSE IF Less(a, b) THEN b ELSE a

\* poissonSample(rate) as a function of the values u that Math.random()
\* returns to it, in order: the number of passes of the loop, minus one
RECURSIVE PoLoop(_, _, _, _)
PoLoop(l, passes, prob, u) ==
    LET q == PoNextP(prob, Draw(u, passes))
    IN  IF PoContinues(q, l) THEN PoLoop(l, passes + 1, q, u) ELSE passes
PoissonSample(rate, u) == Num(PoLoop(ExpNeg(rate), 1, Num(1), u) - 1)

\* censored = Math.random() > 0.3, and > 0.25 for heartFailure
CensoredCancer(u) == Less(Norm(3, 10), u)
CensoredHeart(u) == Less(Norm(1, 4), u)

\* the callback of cancerSurvival (CoxRegression.js and Home), u its four draws
GenCancerSurvival(u) ==
    LET age == Add(Num(40), Mul(u[1], Num(40)))
        stage == Add(Floor(Mul(u[2], Num(4))), Num(1))
        baseTime == Sub(Sub(Num(60), Div(age, Num(10))), Mul(stage, Num(6)))
        survivalTime == Max(Num(1), Add(baseTime, Mul(u[3], Num(20))))
    IN  CancerRecord(survivalTime, CensoredCancer(u[4]))

\* the callback of heartFailure
GenHeartFailure(u) ==
    LET ejectionFraction == Add(Num(20), Mul(u[1], Num(40)))
        nyhaClass == Add(Floor(Mul(u[2], Num(4))), Num(1))
        baseTime == Sub(Sub(Num(48), Div(Sub(Num(40), ejectionFraction), Num(2))),
                        Mul(nyhaClass, Num(4)))
        eventTime == Max(Num(1), Add(baseTime, Mul(u[3], Num(15))))
    IN  HeartRecord(eventTime, CensoredHeart(u[4]))

BedCount(u) == Floor(Add(Num(10), Mul(u[1], Num(90))))
StaffRatio(u) == Add(Norm(1, 5), Mul(u[2], Norm(1, 2)))
\* lambda = (bedCount / 20) * (1 - staffRatio)
HospitalLambdaNoComplement(bedCount, staffRatio) == Mul(Div(bedCount, Num(20)), staffRatio)
HospitalLambda(bedCount, staffRatio) ==
    Mul(Div(bedCount, Num(20)), Sub(Num(1), staffRatio))

\* the callback of hospitalInfections in PoissonRegression.js; the sampler reads
\* the draws that follow the first two
GenHospitalInfections(u) ==
    LET bedCount == BedCount(u)
        staffRatio == StaffRatio(u)
        lambda == HospitalLambda(bedCount, staffRatio)
    IN  [bedCount |-> bedCount, staffRatio |-> staffRatio,
         infections |-> PoissonSample(lambda, SubSeq(u, 3, Len(u)))]

\* the callback of poisson.hospitalInfections in Home
GenHomeHospitalInfections(u) ==
    LET bedCount == BedCount(u)
        staffRatio == StaffRatio(u)
        lambda == HospitalLambda(bedCount, staffRatio)
    IN  [bedCount |-> bedCount, staffRatio |-> staffRatio,
         infections |-> Floor(Mul(Mul(u[3], lambda), Num(10)))]

\* the callback of adverseEvents in PoissonRegression.js
PatientCount(u) == Floor(Add(Num(50), Mul(u[1], Num(150))))
MedicationCount(u) == Floor(Add(Num(2), Mul(u[2], Num(8))))
\* lambda = (patientCount / 50) * (medicationCount / 2)
AdverseLambda(patientCount, medicationCount) ==
    Mul(Div(patientCount, Num(50)), Div(medicationCount, Num(2)))
GenAdverseEvents(u) ==
    LET patientCount == PatientCount(u)
        medicationCount == MedicationCount(u)
        lambda == AdverseLambda(patientCount, medicationCount)
    IN  [patientCount |-> patientCount, medicationCount |-> medicationCount,
         events |-> PoissonSample(lambda, SubSeq(u, 3, Len(u)))]

\* 1 / (1 + Math.exp(-z))
Sigmoid(z) == Div(Num(1), Add(Num(1), Exp(Neg(z))))
\* age/20 + cholesterol/100 - 15
RiskScore(age, cholesterol) ==
    Sub(Add(Div(age, Num(20)), Div(cholesterol, Num(100))), Num(15))

\* the callback of logistic.heartDisease in Home
GenHeartDisease(u) ==
    LET age == Add(Num(30), Mul(u[1], Num(50)))
        cholesterol == Add(Num(150), Mul(u[2], Num(150)))
        probability == Sigmoid(RiskScore(age, cholesterol))
    IN  [age |-> age, cholesterol |-> cholesterol,
         outcome |-> IF Less(u[3], probability) THEN 1 ELSE 0]

\* the callback of diabetesRisk in the logistic view
GenDiabetesRiskSparse(u) ==
    IF u[3] = Num(0)
    THEN [bmi |-> Add(Num(18), Mul(u[1], Num(22))),
          glucoseLevel |-> Add(Num(70), Mul(u[2], Num(130)))]
    ELSE [bmi |-> Add(Num(18), Mul(u[1], Num(22))),
          glucoseLevel |-> Add(Num(70), Mul(u[2], Num(130))), outcome |-> 1]
GenDiabetesRisk(u) ==
    LET bmi == Add(Num(18), Mul(u[1], Num(22)))
        glucoseLevel == Add(Num(70), Mul(u[2], Num(130)))
        probability ==
            Sigmoid(Sub(Add(Div(bmi, Num(10)), Div(glucoseLevel, Num(50))), Num(8)))
    IN  [bmi |-> bmi, glucoseLevel |-> glucoseLevel,
         outcome |-> IF Less(u[3], probability) THEN 1 ELSE 0]

\* the datasets followed: module, then the path of the entry in medicalExamples
SurvivalKeys ==
    {"CoxRegression.cancerSurvival", "CoxRegression.heartFailure",
     "Home.cox.cancerSurvival"}
InfectionKeys ==
    {"PoissonRegression.hospitalInfections", "Home.poisson.hospitalInfections"}
RiskKeys == {"Home.logistic.heartDisease"}
EventKeys == {"PoissonRegression.adverseEvents"}
DataKeys == SurvivalKeys \cup InfectionKeys \cup RiskKeys \cup EventKeys

\* draws of one callback. The censoring draws lie on both sides of the two
\* thresholds and on them; the other draws give two event times per dataset,
\* the bed counts 20 and 40 and the staff ratios 0.2 and 0.5.
SurvivalDraws ==
    {<<Norm(1, 2), s, Norm(1, 2), c>> :
        s \in {Num(0), Norm(3, 4)},
        c \in {Norm(1, 4), Norm(3, 10), Norm(7, 20), Norm(19, 20)}}
SamplerDraws == {<<Num(0)>>, <<Norm(3, 4), Norm(1, 4)>>}
InfectionDraws ==
    {<<b, s>> \o t : b \in {Norm(1, 9), Norm(1, 3)}, s \in {Num(0), Norm(3, 5)},
                     t \in SamplerDraws}
\* ages 30, 78 and 79 with cholesterol 150, 298 and 299: both ends of the
\* generator's ranges; the draw 0 of the second makes its outcome 1
RiskDraws ==
    {<<Num(0), Num(0), Norm(1, 2)>>, <<Norm(24, 25), Norm(74, 75), Num(0)>>,
     <<Norm(49, 50), Norm(149, 150), Norm(1, 2)>>}
\* both ends of what Math.random() gives the two Poisson generators: bed
\* counts 10 and 99 with staff ratios 0.2 and 0.695, patient counts 50 and
\* 199 with medication counts 2 and 9
EndDraws(top) ==
    {<<a, b>> \o t : a \in {Num(0), top}, b \in {Num(0), Norm(99, 100)},
                     t \in SamplerDraws}
RecordDraws(key) ==
    IF key \in SurvivalKeys THEN SurvivalDraws
    ELSE IF key = "PoissonRegression.hospitalInfections" THEN EndDraws(Norm(89, 90))
    ELSE IF key \in InfectionKeys THEN InfectionDraws
    ELSE IF key \in EventKeys THEN EndDraws(Norm(149, 150))
    ELSE RiskDraws

GenRecord(key, u) ==
    CASE key \in {"CoxRegression.cancerSurvival", "Home.cox.cancerSurvival"} ->
             GenCancerSurvival(u)
      [] key = "CoxRegression.heartFailure" -> GenHeartFailure(u)
      [] key = "PoissonRegression.hospitalInfections" -> GenHospitalInfections(u)
      [] key = "PoissonRegression.adverseEvents" -> GenAdverseEvents(u)
      [] key = "Home.poisson.hospitalInfections" -> GenHomeHospitalInfections(u)
      [] key = "Home.logistic.heartDisease" -> GenHeartDisease(u)

\* the field the comparator of .sort reads
SortField(key, d) ==
    IF key = "CoxRegression.heartFailure" THEN d.eventTime ELSE d.survivalTime

\* d inserted behind the elements that do not compare greater (the sort is stable)
InsertByTime(key, sorted, d) ==
    LET pos == Cardinality({i \in 1..Len(sorted) :
                               ~Less(SortField(key, d), SortField(key, sorted[i]))})
    IN  SubSeq(sorted, 1, pos) \o <<d>> \o SubSeq(sorted, pos + 1, Len(sorted))
RECURSIVE SortFirst(_, _, _)
SortFirst(key, data, m) ==
    IF m = 0 THEN <<>> ELSE InsertByTime(key, SortFirst(key, data, m - 1), data[m])
\* .sort((a, b) => a.survivalTime - b.survivalTime), or by eventTime
Unsorted(key, data) == data
SortByTime(key, data) == SortFirst(key, data, Len(data))

\* what follows Array.from in the initialiser
Finished(key, data) == IF key \in SurvivalKeys THEN SortByTime(key, data) ELSE data

DsIdle == dsPc = "idle" /\ dsKey = "" /\ dsData = <<>> /\ dsDraws = <<>>

\* the module is evaluated: the initialiser of one of its datasets starts
DsBegin(key) ==
    /\ dsPc = "idle"
    /\ dsPc' = "fill"
    /\ dsKey' = key
    /\ UNCHANGED <<dsData, dsDraws, kmVars, fitVars, viewVars, poVars>>

\* one call of the callback of Array.from
DsRecord ==
    /\ dsPc = "fill"
    /\ Len(dsData) < SampleCount
    /\ \E u \in RecordDraws(dsKey) :
          /\ dsData' = Append(dsData, GenRecord(dsKey, u))
          /\ dsDraws' = Append(dsDraws, u)
    /\ UNCHANGED <<dsPc, dsKey, kmVars, fitVars, viewVars, poVars>>

\* Array.from returns; the array is sorted where the source sorts it
DsFinish ==
    /\ dsPc = "fill"
    /\ Len(dsData) = SampleCount
    /\ dsData' = Finished(dsKey, dsData)
    /\ dsPc' = "ready"
    /\ UNCHANGED <<dsKey, dsDraws, kmVars, fitVars, viewVars, poVars>>

DsBeginAny == \E key \in DataKeys : DsBegin(key)

\* the effect of CoxRegression, or the cox branch of Home's effect, runs the
\* estimator on medicalExamples[...].data
KMCallData ==
    /\ dsPc = "ready"
    /\ dsKey \in SurvivalKeys
    /\ KMCall(IF dsKey = "Home.cox.cancerSurvival" THEN "home" ELSE "cox", dsData)

-----------------------------------------------------------------------------
(* Properties of the datasets built record by record *)

\* the record the callback produced from the i-th group of draws
Generated(i) == GenRecord(dsKey, dsDraws[i])
\* the draws the i-th callback left to the sampler
SamplerInput(i) == SubSeq(dsDraws[i], 3, Len(dsDraws[i]))
IsSortedByTime(key, data) ==
    \A i \in 1..(Len(data) - 1) :
        Leq(SortField(key, data[i]), SortField(key, data[i + 1]))
\* how often record d occurs in data
Count(data, d) == Cardinality({i \in 1..Len(data) : data[i] = d})
Distance(a, b) == IF Less(a, b) THEN Sub(b, a) ELSE Sub(a, b)

\* C14 as claimed: in every hospital-infections dataset the application
\* builds, in PoissonRegression.js and in Home, the infections value of each
\* sample is what the Poisson sampler returns for
\* lambda = (bedCount / 20) * (1 - staffRatio) on the draws that follow.
C14_InfectionsFromSampler ==
    dsKey \in InfectionKeys =>
        \A i \in 1..Len(dsData) :
            dsData[i].infections =
                PoissonSample(HospitalLambda(dsData[i].bedCount, dsData[i].staffRatio),
                              SamplerInput(i))

\* the rate the generator of dsKey has passed to poissonSample for record d
PassedLambda(d) ==
    IF dsKey \in EventKeys THEN AdverseLambda(d.patientCount, d.medicationCount)
    ELSE HospitalLambda(d.bedCount, d.staffRatio)
Between(lo, v, hi) == lo <= v[1] /\ v[1] <= hi /\ v[2] = 1

\* C25: every rate the generators of PoissonRegression.js pass to
\* poissonSample is strictly positive and below 30: for hospitalInfections
\* bedCount is in 10..99, staffRatio in [0.2, 0.7) and lambda in (0.15, 3.96];
\* for adverseEvents patientCount is in 50..199, medicationCount in 2..9 and
\* lambda in [1, 17.91].
C25_RatesInRange ==
    dsKey \in {"PoissonRegression.hospitalInfections", "PoissonRegression.adverseEvents"} =>
        \A i \in 1..Len(dsData) :
            LET d == dsData[i]
                lambda == PassedLambda(d)
            IN  /\ Less(Num(0), lambda) /\ Less(lambda, Num(30))
                /\ IF dsKey \in EventKeys
                   THEN /\ Between(50, d.patientCount, 199)
                        /\ Between(2, d.medicationCount, 9)
                        /\ Leq(Num(1), lambda) /\ Leq(lambda, Norm(1791, 100))
                   ELSE /\ Between(10, d.bedCount, 99)
                        /\ Leq(Norm(1, 5), d.staffRatio)
                        /\ Less(d.staffRatio, Norm(7, 10))
                        /\ Less(Norm(3, 20), lambda) /\ Leq(lambda, Norm(99, 25))
                /\ d[IF dsKey \in EventKeys THEN "events" ELSE "infections"]
                      = PoissonSample(lambda, SamplerInput(i))

\* an adverseEvents dataset is ready with the rates 1 and 17.91 in it
C25_Witness ==
    /\ dsPc = "ready" /\ dsKey = "PoissonRegression.adverseEvents"
    /\ PassedLambda(dsData[1]) = Num(1)
    /\ PassedLambda(dsData[2]) = Norm(1791, 100)
    /\ Less(Num(0), dsData[2].events)

\* C15 as claimed: in the cancer-survival generator a record is censored
\* exactly when its censoring draw falls in one range of measure 0.3, so the
\* censoring draws of any two censored records are at most 0.3 apart, and a
\* record whose draw lies between those of two censored records is censored.
C15_CensoredRangeOfThreeTenths ==
    dsKey \in {"CoxRegression.cancerSurvival", "Home.cox.cancerSurvival"} =>
        \A i, j \in 1..Len(dsDraws) :
            Generated(i).censored /\ Generated(j).censored =>
                Leq(Distance(dsDraws[i][4], dsDraws[j][4]), Norm(3, 10))

\* C16: every dataset given to the Kaplan-Meier estimator, cancerSurvival and
\* heartFailure of the Cox view and cancerSurvival of Home, holds the
\* generated records in ascending order of its time field, and the times of
\* the points the estimator puts out never decrease.
C16_EstimatorInputSorted ==
    /\ dsPc = "ready" /\ dsKey \in SurvivalKeys =>
          /\ IsSortedByTime(dsKey, dsData)
          /\ LET generated == [i \in 1..Len(dsDraws) |-> Generated(i)]
             IN  \A i \in 1..Len(generated) :
                     Count(dsData, generated[i]) = Count(generated, generated[i])
    /\ kmPc \in {"loop", "done"} =>
          /\ kmData = dsData
          /\ IsSortedByTime(dsKey, kmData)
          /\ \A i \in 1..(Len(survival) - 1) :
                Leq(survival[i].time, survival[i + 1].time)
\* the estimator has run over a heartFailure dataset whose records were not
\* generated in ascending order of eventTime
C16_Witness ==
    /\ kmPc = "done" /\ dsKey = "CoxRegression.heartFailure"
    /\ Less(Generated(2).eventTime, Generated(1).eventTime)
    /\ Less(survival[1].time, survival[Len(survival)].time)

-----------------------------------------------------------------------------
(* Module-level datasets *)

\* Array.from({length}, callback) when Math.random() returns the values of the
\* stream u in order, each call of the callback taking the next w of them
FromStream(Callback(_), u, w) ==
    [i \in 1..SampleCount |-> Callback([j \in 1..w |-> Draw(u, (i - 1) * w + j)])]

\* bpAge of LinearRegression and of Home
GenBpAge(u) ==
    [i \in 1..SampleCount |->
        [x |-> Add(Num(20), Mul(Draw(u, 2 * (i - 1) + 1), Num(60))),
         y |-> Add(Add(Num(90), Norm(i - 1, 2)), Mul(Draw(u, 2 * (i - 1) + 2), Num(30)))]]

\* heightWeight of LinearRegression and of Home
GenHeightWeight(u) ==
    [i \in 1..SampleCount |->
        [x |-> Add(Num(150), Mul(Draw(u, 2 * (i - 1) + 1), Num(40))),
         y |-> Add(Add(Num(50), Norm(i - 1, 3)), Mul(Draw(u, 2 * (i - 1) + 2), Num(20)))]]

\* d.bmi = d.weight / (heightInM * heightInM)
Bmi(height, weight) ==
    LET heightInM == Div(height, Num(100)) IN Div(weight, Mul(heightInM, heightInM))

\* bmiFactors of MultipleRegression
GenBmiFactors(u) ==
    [i \in 1..SampleCount |->
        LET height == Add(Num(150), Mul(Draw(u, 3 * (i - 1) + 1), Num(40)))
            weight == Add(Num(50), Mul(Draw(u, 3 * (i - 1) + 2), Num(50)))
            age == Add(Num(20), Mul(Draw(u, 3 * (i - 1) + 3), Num(60)))
        IN  [height |-> height, weight |-> weight, age |-> age,
             bmi |-> Bmi(height, weight)]]

\* hospitalStay of MultipleRegression
GenHospitalStay(u) ==
    [i \in 1..SampleCount |->
        LET age == Add(Num(20), Mul(Draw(u, 3 * (i - 1) + 1), Num(60)))
            severity == Mul(Draw(u, 3 * (i - 1) + 2), Num(10))
            comorbidities == Floor(Mul(Draw(u, 3 * (i - 1) + 3), Num(5)))
            \* the .map pass draws after all samples were created
            last == Draw(u, 3 * SampleCount + i)
        IN  [age |-> age, severity |-> severity, comorbidities |-> comorbidities,
             stayDuration |->
                Add(Add(Add(Add(Num(2), Div(age, Num(20))), Mul(severity, Norm(3, 2))),
                        Mul(comorbidities, Num(2))),
                    Mul(last, Num(5)))]]

\* bmiFactors of Home
GenHomeBmiFactors(u) ==
    [i \in 1..SampleCount |->
        LET height == Add(Num(150), Mul(Draw(u, 6 * (i - 1) + 1), Num(40)))
            weight == Add(Num(50), Mul(Draw(u, 6 * (i - 1) + 2), Num(50)))
            age == Add(Num(20), Mul(Draw(u, 6 * (i - 1) + 3), Num(60)))
            coffeePerDay == Floor(Mul(Draw(u, 6 * (i - 1) + 4), Num(8)))
            sleepHours == Add(Num(5), Mul(Draw(u, 6 * (i - 1) + 5), Num(5)))
            isMarried == IF Less(Norm(1, 2), Draw(u, 6 * (i - 1) + 6))
                         THEN Num(1) ELSE Num(0)
        IN  [height |-> height, weight |-> weight, age |-> age,
             coffeePerDay |-> coffeePerDay, sleepHours |-> sleepHours,
             isMarried |-> isMarried, bmi |-> Bmi(height, weight)]]

\* the `factors` arrays
ViewFactors == 3
HomeFactors == 6

\* the three modules' datasets, each module evaluated once at load
LoadExamples(load) ==
    [LinearRegression |-> [bpAge |-> GenBpAge(load.bpAge),
                           heightWeight |-> GenHeightWeight(load.heightWeight)],
     MultipleRegression |-> [bmiFactors |-> GenBmiFactors(load.bmiFactors),
                             hospitalStay |-> GenHospitalStay(load.hospitalStay)],
     LogisticRegression |->
         [heartDisease |-> FromStream(GenHeartDisease, load.heartDisease, 3),
          diabetesRisk |-> FromStream(GenDiabetesRisk, load.diabetesRisk, 3)],
     CoxRegression |->
         [cancerSurvival |->
              SortByTime("CoxRegression.cancerSurvival",
                  FromStream(GenCancerSurvival, load.cancerSurvival, 4)),
          heartFailure |->
              SortByTime("CoxRegression.heartFailure",
                  FromStream(GenHeartFailure, load.heartFailure, 4))],
     PoissonRegression |->
         [hospitalInfections |->
              FromStream(GenHospitalInfections, load.sampledInfections, 4),
          adverseEvents |-> FromStream(GenAdverseEvents, load.adverseEvents, 4)],
     \* Home's copies draw their own values: here the load's other pair stream
     Home |-> [linear |-> [bpAge |-> GenBpAge(load.heightWeight),
                           heightWeight |-> GenHeightWeight(load.bpAge)],
               multiple |-> [bmiFactors |-> GenHomeBmiFactors(load.homeBmiFactors)],
               logistic |-> [heartDisease |->
                                FromStream(GenHeartDisease, load.heartDisease, 3)],
               cox |-> [cancerSurvival |->
                           SortByTime("Home.cox.cancerSurvival",
                               FromStream(GenCancerSurvival, load.cancerSurvival, 4))],
               poisson |-> [hospitalInfections |->
                               FromStream(GenHomeHospitalInfections,
                                          load.hospitalInfections, 3)]]]

\* the `length` each initialiser gives Array.from
DeclaredLength ==
    [LinearRegression |-> [bpAge |-> 50, heightWeight |-> 50],
     MultipleRegression |-> [bmiFactors |-> 50, hospitalStay |-> 50],
     LogisticRegression |-> [heartDisease |-> 100, diabetesRisk |-> 100],
     CoxRegression |-> [cancerSurvival |-> 100, heartFailure |-> 100],
     PoissonRegression |-> [hospitalInfections |-> 50, adverseEvents |-> 50],
     Home |-> [linear |-> [bpAge |-> 50, heightWeight |-> 50],
               multiple |-> [bmiFactors |-> 50],
               logistic |-> [heartDisease |-> 100],
               cox |-> [cancerSurvival |-> 100],
               poisson |-> [hospitalInfections |-> 50]]]
\* the number of records the model gives an array declared with that length
Scaled(length) == SampleCount

-----------------------------------------------------------------------------
(* Rendering: the elements an effect appends after clearing the <svg>.       *)
(* Elements carry data coordinates; the pixel scales are not modelled.       *)

Element(tag, data) == [tag |-> tag, data |-> data]
Axes == <<Element("g", <<"axisBottom">>), Element("g", <<"axisLeft">>)>>

\* y: d.y + (Math.random() - 0.5) * noiseLevel * 20
PerturbYUnscaled(y, r, nl) == Add(y, Mul(Sub(r, Norm(1, 2)), Num(20)))
PerturbYOneSided(y, r, nl) == Add(y, Mul(Mul(r, nl), Num(20)))
PerturbY(y, r, nl) == Add(y, Mul(Mul(Sub(r, Norm(1, 2)), nl), Num(20)))

\* the samples an effect works on: medicalExamples[selectedExample].data, the
\* array stored when the module was loaded
RenderedSamplesRegenerated(stored, u) == GenBpAge(u)
RenderedSamples(stored, u) == stored

\* the linear chart of LinearRegression and of Home's linear branch
RenderLinear(stored, nl, u) ==
    LET samples == RenderedSamples(stored, u)
        data == [i \in 1..Len(samples) |->
                    [x |-> samples[i].x, y |-> PerturbY(samples[i].y, Draw(u, i), nl)]]
        X == [i \in 1..Len(data) |-> data[i].x]
        Y == [i \in 1..Len(data) |-> data[i].y]
    IN  Axes
        \o [i \in 1..Len(data) |-> Element("circle", <<data[i].x, data[i].y>>)]
        \o <<Element("path", LinearFit(X, Y, ScaleDomain(X)).line)>>

\* MultipleRegression: [d.height, d.weight, d.age][selectedFactor] and its twin
ViewFactorValueFirst(key, d, f) == IF key = "bmiFactors" THEN d.height ELSE d.age
ViewFactorValue(key, d, f) ==
    IF key = "bmiFactors" THEN <<d.height, d.weight, d.age>>[f + 1]
    ELSE <<d.age, d.severity, d.comorbidities>>[f + 1]
ViewOutcome(key, d) == IF key = "bmiFactors" THEN d.bmi ELSE d.stayDuration

\* the chart of MultipleRegression
RenderMultipleView(key, data, f) ==
    LET X == [i \in 1..Len(data) |-> ViewFactorValue(key, data[i], f)]
        Y == [i \in 1..Len(data) |-> ViewOutcome(key, data[i])]
    IN  Axes
        \o [i \in 1..Len(data) |-> Element("circle", <<X[i], Y[i]>>)]
        \o <<Element("path", FactorFit(X, Y, ScaleDomain(X)).line)>>

\* Home: switch (selectedFactor)
HomeFactorValue(d, f) ==
    CASE f = 0 -> d.height
      [] f = 1 -> d.weight
      [] f = 2 -> d.age
      [] f = 3 -> d.coffeePerDay
      [] f = 4 -> d.sleepHours
      [] f = 5 -> d.isMarried
      [] OTHER -> d.height

\* d3.mean: undefined for an empty array
MeanOrUndefined(s) == IF s = <<>> THEN Undefined ELSE Mean(s)

\* `if (selectedFactor !== 5)`: the factor gets a regression line
HomeFitsFactorAlways(f) == TRUE
HomeFitsFactor(f) == f # 5

\* the chart of Home's multiple branch
RenderHomeMultiple(data, f) ==
    LET X == [i \in 1..Len(data) |-> HomeFactorValue(data[i], f)]
        Y == [i \in 1..Len(data) |-> data[i].bmi]
        domain == IF f = 5 THEN <<Norm(-1, 2), Norm(3, 2)>> ELSE ScaleDomain(X)
        married(v) == LET is(d) == d.isMarried = v
                          group == SelectSeq(data, is)
                      IN  MeanOrUndefined([i \in 1..Len(group) |-> group[i].bmi])
        floor == Mul(MinSeq(Y), Norm(9, 10))
    IN  Axes
        \o [i \in 1..Len(data) |-> Element("circle", <<X[i], Y[i]>>)]
        \o IF HomeFitsFactor(f)
           THEN <<Element("path", FactorFit(X, Y, domain).line)>>
           ELSE <<Element("line", <<Num(0), floor, married(Num(0))>>),
                  Element("line", <<Num(1), floor, married(Num(1))>>)>>

\* the grid the two loops of the decision boundary walk: age from d3.min to
\* d3.max in steps of 0.5, and for each age chol from d3.min to d3.max in
\* steps of 1
BoundaryGrid(data) ==
    LET ages == [i \in 1..Len(data) |-> data[i].age]
        chols == [i \in 1..Len(data) |-> data[i].cholesterol]
        minAge == MinSeq(ages)
        minChol == MinSeq(chols)
        ageSteps == Floor(Mul(Sub(MaxSeq(ages), minAge), Num(2)))[1] + 1
        cholSteps == Floor(Sub(MaxSeq(chols), minChol))[1] + 1
    IN  [k \in 1..(ageSteps * cholSteps) |->
            <<Add(minAge, Norm((k - 1) \div cholSteps, 2)),
              Add(minChol, Num((k - 1) % cholSteps))>>]
\* Math.abs(prob - 0.5) < 0.01
NearHalf(prob) ==
    LET diff == Sub(prob, Norm(1, 2))
    IN  Less(IF Less(diff, Num(0)) THEN Neg(diff) ELSE diff, Norm(1, 100))
\* curvePoints
CurvePoints(data) ==
    LET onBoundary(pt) == NearHalf(Sigmoid(RiskScore(pt[1], pt[2])))
    IN  SelectSeq(BoundaryGrid(data), onBoundary)

\* the logistic chart of Home: the samples coloured by outcome and the dashed
\* path through curvePoints
RenderHomeLogistic(data) ==
    Axes
    \o [i \in 1..Len(data) |->
           Element("circle", <<data[i].age, data[i].cholesterol, data[i].outcome>>)]
    \o <<Element("path", CurvePoints(data))>>

\* the estimator as one fold over the first m records: n, currentProb and
\* survival after them
RECURSIVE KMFold(_, _, _)
KMFold(impl, data, m) ==
    IF m = 0
    THEN [n |-> Len(data), currentProb |-> Num(1), survival |-> KMInitialSurvival]
    ELSE LET before == KMFold(impl, data, m - 1)
             prob == KMUpdate(before.currentProb, before.n, data[m])
         IN  [n |-> KMNextAtRisk(before.n, data[m]),
              currentProb |-> prob,
              survival |-> Append(before.survival, KMPoint(impl, data[m], prob))]
KMCurve(impl, data) == KMFold(impl, data, Len(data)).survival

\* the cox chart of Home: the step curve and a circle at each censored point
RenderHomeCox(data) ==
    LET curve == KMCurve("home", data)
        isCensored(pt) == pt.censored
        marks == SelectSeq(curve, isCensored)
    IN  Axes
        \o <<Element("path", curve)>>
        \o [i \in 1..Len(marks) |->
               Element("circle", <<marks[i].time, marks[i].probability>>)]

\* the poisson chart of Home: the samples and the dashed curve x / 20 * 0.5
\* over d3.range(0, d3.max(bedCount), 1)
RenderHomePoisson(data) ==
    LET beds == [i \in 1..Len(data) |-> data[i].bedCount]
        curveX == [k \in 1..MaxSeq(beds)[1] |-> Num(k - 1)]
    IN  Axes
        \o [i \in 1..Len(data) |->
               Element("circle", <<data[i].bedCount, data[i].infections>>)]
        \o <<Element("path", [k \in 1..Len(curveX) |->
                                 <<curveX[k], Mul(Div(curveX[k], Num(20)), Norm(1, 2))>>])>>

\* regressionKey = selectedRegression.substring(1)
RegressionKey(path) ==
    CASE path = "/linear" -> "linear"
      [] path = "/multiple" -> "multiple"
      [] path = "/logistic" -> "logistic"
      [] path = "/cox" -> "cox"
      [] path = "/poisson" -> "poisson"

\* what the effect of the component mounted at rt draws for the given state
Chart(rt, reg, ds, f, nl, u) ==
    CASE rt = "/linear" -> RenderLinear(medicalExamples.LinearRegression[ds], nl, u)
      [] rt = "/multiple" ->
            RenderMultipleView(ds, medicalExamples.MultipleRegression[ds], f)
      [] OTHER ->
            CASE reg = "/linear" -> RenderLinear(medicalExamples.Home.linear[ds], nl, u)
              [] reg = "/multiple" ->
                    RenderHomeMultiple(medicalExamples.Home.multiple[ds], f)
              [] reg = "/logistic" -> RenderHomeLogistic(medicalExamples.Home.logistic[ds])
              [] reg = "/cox" -> RenderHomeCox(medicalExamples.Home.cox[ds])
              [] reg = "/poisson" -> RenderHomePoisson(medicalExamples.Home.poisson[ds])

-----------------------------------------------------------------------------
(* The interpretation panel of Home: numbers computed in the JSX, each from   *)
(* its own Math.random() and shown through toFixed.                           *)

\* x.toFixed(digits) for x >= 0: the nearest decimal with that many digits,
\* the larger one on a tie
ToFixed(x, digits) ==
    LET scale == IF digits = 1 THEN 10 ELSE IF digits = 2 THEN 100 ELSE 10000
    IN  Norm(Floor(Add(Mul(x, Num(scale)), Norm(1, 2)))[1], scale)
\* (base + Math.random() * width).toFixed(digits)
Shown(base, width, u, digits) == ToFixed(Add(base, Mul(u, width)), digits)

\* R2 value of the linear panel
PanelR2FromUnit(u) == Shown(Num(0), Num(1), u, 2)
PanelR2(u) == Shown(Norm(3, 4), Norm(1, 10), u, 2)
\* Slope of the linear panel
PanelSlope(u) == Shown(Norm(1, 2), Norm(1, 5), u, 2)

\* draws of one render of the panel, in the order the JSX evaluates them
PanelStreams ==
    {<<Num(0), Norm(1, 2), Norm(24, 25), Num(0), Norm(1, 2), Norm(24, 25)>>,
     <<Norm(24, 25), Num(0), Norm(1, 2), Norm(1, 4), Norm(3, 4), Num(0)>>}

NoPanel == [key |-> "", draws |-> <<>>]
\* what the panel shows for regressionKey key and selectedFactor f
Panel(key, f, v) ==
    CASE key = "linear" ->
            [key |-> key, draws |-> v,
             r2 |-> PanelR2(v[1]),
             pValue |-> Shown(Norm(1, 1000), Norm(1, 1000), v[2], 4),
             slope |-> PanelSlope(v[3]),
             increase |-> PanelSlope(v[4]),
             example |-> PanelSlope(v[5]),
             strength |-> IF Less(Norm(4, 5), PanelR2(v[6]))
                          THEN "very strong" ELSE "strong"]
      [] key = "multiple" ->
            [key |-> key, draws |-> v,
             correlation |-> Shown(Norm(2, 5), Norm(2, 5), v[1], 2),
             pValue |-> Shown(Norm(1, 1000), Norm(1, 100), v[2], 4),
             direction |-> IF f <= 2 THEN "Positive" ELSE "Negative",
             change |-> Shown(Norm(1, 5), Norm(3, 10), v[3], 2),
             plain |-> IF f = 5
                       THEN <<IF Less(Norm(1, 2), v[4]) THEN "significant" ELSE "moderate",
                              IF Less(Norm(1, 2), v[5]) THEN "higher" ELSE "lower">>
                       ELSE <<IF Less(Norm(3, 5), Shown(Norm(2, 5), Norm(2, 5), v[4], 2))
                              THEN "strong" ELSE "moderate">>]
      [] key = "logistic" ->
            [key |-> key, draws |-> v,
             auc |-> Shown(Norm(4, 5), Norm(1, 10), v[1], 2),
             accuracy |-> Shown(Norm(3, 4), Norm(1, 10), v[2], 2)]
      [] key = "cox" ->
            [key |-> key, draws |-> v,
             medianSurvival |-> Shown(Num(30), Num(10), v[1], 1),
             fiveYear |-> Shown(Norm(2, 5), Norm(1, 5), v[2], 2),
             pValue |-> Shown(Norm(1, 1000), Norm(1, 100), v[3], 4),
             censoringRate |-> Shown(Norm(1, 5), Norm(1, 10), v[4], 2)]
      [] key = "poisson" ->
            [key |-> key, draws |-> v,
             dispersion |-> Shown(Norm(11, 10), Norm(3, 10), v[1], 2),
             rateRatio |-> Shown(Norm(6, 5), Norm(1, 5), v[2], 2),
             aic |-> Shown(Num(120), Num(20), v[3], 1)]
\* the panels a render of Home may show
Panels(reg, f) == {Panel(RegressionKey(reg), f, v) : v \in PanelStreams}

-----------------------------------------------------------------------------
(* The components *)

Routes == {"/", "/linear", "/multiple"}
\* regressionTypes of Home
RegressionPaths == {"/linear", "/multiple", "/logistic", "/cox", "/poisson"}
\* the regression types of Home that draw a fitted line
HomePaths == {"/linear", "/multiple"}
\* Object.keys(medicalExamples[...])
DatasetKeys(rt, reg) ==
    CASE rt = "/linear" -> <<"bpAge", "heightWeight">>
      [] rt = "/multiple" -> <<"bmiFactors", "hospitalStay">>
      [] OTHER ->
            CASE reg = "/linear" -> <<"bpAge", "heightWeight">>
              [] reg = "/multiple" -> <<"bmiFactors">>
              [] reg = "/logistic" -> <<"heartDisease">>
              [] reg = "/cox" -> <<"cancerSurvival">>
              [] reg = "/poisson" -> <<"hospitalInfections">>
\* the slider positions enumerated (min 0, max 2, step 0.1)
SliderStops == {Num(0), Norm(1, 10), Num(1), Num(2)}

ShowsLinearChart == route = "/linear" \/ (route = "/" /\ selectedRegression = "/linear")
ShowsMultipleChart ==
    route = "/multiple" \/ (route = "/" /\ selectedRegression = "/multiple")

IsTag(t, e) == e.tag = t
Paths(elements) == LET is(e) == IsTag("path", e) IN SelectSeq(elements, is)
Lines(elements) == LET is(e) == IsTag("line", e) IN SelectSeq(elements, is)
Circles(elements) == LET is(e) == IsTag("circle", e) IN SelectSeq(elements, is)

\* d3.select(svgRef.current).selectAll('*').remove()
NotCleared(elements) == elements
Cleared(elements) == <<>>

NoRender == [route |-> "", regression |-> "", dataset |-> "", noise |-> Num(0),
             line |-> <<>>, points |-> <<>>, panel |-> NoPanel]
\* what memo may hold after the next render: the old value, or the render on screen
Remembered ==
    IF ShowsLinearChart
    THEN {memo, [route |-> route, regression |-> selectedRegression,
                 dataset |-> selectedDataset, noise |-> noiseLevel,
                 line |-> Paths(svg)[1].data, points |-> Circles(svg),
                 panel |-> panel]}
    ELSE {memo}

\* the component renders with the new state, which is committed, and the
\* effect runs: clear the <svg>, draw the chart; shown are the panels the
\* render may produce
CommitWith(rt, reg, ds, f, nl, shown) ==
    /\ route' = rt
    /\ selectedRegression' = reg
    /\ selectedDataset' = ds
    /\ selectedFactor' = f
    /\ noiseLevel' = nl
    /\ \E u \in Streams : svg' = Cleared(svg) \o Chart(rt, reg, ds, f, nl, u)
    /\ memo' \in Remembered
    /\ panel' \in shown
    /\ UNCHANGED <<medicalExamples, kmVars, fitVars, poVars, dsVars>>

\* the same with the text of the panel left out
Commit(rt, reg, ds, f, nl) == CommitWith(rt, reg, ds, f, nl, {panel})

\* Home shows the logistic type: handleRegressionChange('/logistic') selects
\* heartDisease and the effect draws the chart of the stored dataset
HomeShowLogistic ==
    /\ dsPc = "ready"
    /\ dsKey = "Home.logistic.heartDisease"
    /\ selectedRegression # "/logistic"
    /\ route' = "/"
    /\ selectedRegression' = "/logistic"
    /\ selectedDataset' = "heartDisease"
    /\ svg' = Cleared(svg) \o RenderHomeLogistic(dsData)
    /\ UNCHANGED <<medicalExamples, selectedFactor, noiseLevel, memo, panel,
                   kmVars, fitVars, poVars, dsVars>>

\* useState initial values of the component mounted at rt
InitialRegression(rt) == IF rt = "/" THEN "/multiple" ELSE rt
InitialDataset(rt) == IF rt = "/linear" THEN "bpAge" ELSE "bmiFactors"

\* App: the route changes, the old component unmounts and the new one mounts
Navigate(rt) ==
    /\ rt # route
    /\ Commit(rt, InitialRegression(rt), InitialDataset(rt), 0, Num(1))

\* LinearRegression: setSelectedExample
LinearSetSelectedExample(key) ==
    /\ route = "/linear" /\ key # selectedDataset
    /\ Commit(route, selectedRegression, key, selectedFactor, noiseLevel)

\* LinearRegression: setNoiseLevel
LinearSetNoiseLevel(v) ==
    /\ route = "/linear" /\ v # noiseLevel
    /\ Commit(route, selectedRegression, selectedDataset, selectedFactor, v)

\* MultipleRegression: setSelectedExample
MultipleSetSelectedExample(key) ==
    /\ route = "/multiple" /\ key # selectedDataset
    /\ Commit(route, selectedRegression, key, selectedFactor, noiseLevel)

\* MultipleRegression: setSelectedFactor
MultipleSetSelectedFactor(f) ==
    /\ route = "/multiple" /\ f # selectedFactor
    /\ Commit(route, selectedRegression, selectedDataset, f, noiseLevel)

\* Home: handleRegressionChange
HomeRegressionChange(path) ==
    /\ route = "/" /\ path # selectedRegression
    /\ Commit(route, path, DatasetKeys(route, path)[1], selectedFactor, noiseLevel)

\* Home: setSelectedDataset
HomeSetSelectedDataset(key) ==
    /\ route = "/" /\ key # selectedDataset
    /\ Commit(route, selectedRegression, key, selectedFactor, noiseLevel)

\* Home: setSelectedFactor (the select is shown for the multiple type)
HomeSetSelectedFactor(f) ==
    /\ route = "/" /\ selectedRegression = "/multiple" /\ f # selectedFactor
    /\ Commit(route, selectedRegression, selectedDataset, f, noiseLevel)

\* Home: setNoiseLevel (the slider is shown for the linear type)
HomeSetNoiseLevel(v) ==
    /\ route = "/" /\ selectedRegression = "/linear" /\ v # noiseLevel
    /\ Commit(route, selectedRegression, selectedDataset, selectedFactor, v)

Range(s) == {s[i] : i \in 1..Len(s)}

\* the factors the panel tells apart (f <= 2, f = 5, the rest) and two
\* positions of the slider
PanelFactors == {0, 3, 5}
PanelSliderStops == {Num(0), Num(1)}

\* Home with its interpretation panel: every state change renders the
\* component again, which evaluates the numbers of the panel again
HomeRender(reg, ds, f, nl) == CommitWith("/", reg, ds, f, nl, Panels(reg, f))

\* handleRegressionChange: the type and the first dataset of the type
HomePanelRegressionChangeResetsFactor(path) ==
    /\ route = "/" /\ path # selectedRegression
    /\ HomeRender(path, DatasetKeys(route, path)[1], 0, noiseLevel)
HomePanelRegressionChange(path) ==
    /\ route = "/" /\ path # selectedRegression
    /\ HomeRender(path, DatasetKeys(route, path)[1], selectedFactor, noiseLevel)

\* setSelectedDataset
HomePanelSetSelectedDataset(key) ==
    /\ route = "/" /\ key # selectedDataset
    /\ HomeRender(selectedRegression, key, selectedFactor, noiseLevel)

\* setSelectedFactor
HomePanelSetSelectedFactor(f) ==
    /\ route = "/" /\ selectedRegression = "/multiple" /\ f # selectedFactor
    /\ HomeRender(selectedRegression, selectedDataset, f, noiseLevel)

\* setNoiseLevel
HomePanelSetNoiseLevel(v) ==
    /\ route = "/" /\ selectedRegression = "/linear" /\ v # noiseLevel
    /\ HomeRender(selectedRegression, selectedDataset, selectedFactor, v)

ViewsIdle ==
    /\ medicalExamples = <<>> /\ route = "" /\ selectedRegression = ""
    /\ selectedDataset = "" /\ selectedFactor = 0 /\ noiseLevel = Num(1)
    /\ svg = <<>> /\ memo = NoRender /\ panel = NoPanel

\* the modules are loaded and the component of the first route has rendered
InitViews ==
    /\ KMIdle /\ FitIdle /\ PoIdle /\ DsIdle
    /\ \E load \in Loads : medicalExamples = LoadExamples(load)
    /\ route \in Routes
    /\ selectedRegression = InitialRegression(route)
    /\ selectedDataset = InitialDataset(route)
    /\ selectedFactor = 0
    /\ noiseLevel = Num(1)
    /\ \E u \in Streams :
          svg = Chart(route, selectedRegression, selectedDataset, 0, Num(1), u)
    /\ memo = NoRender
    /\ panel = NoPanel

NextViews ==
    \/ \E rt \in Routes : Navigate(rt)
    \/ \E key \in Range(DatasetKeys("/linear", "")) : LinearSetSelectedExample(key)
    \/ \E v \in SliderStops : LinearSetNoiseLevel(v)
    \/ \E key \in Range(DatasetKeys("/multiple", "")) : MultipleSetSelectedExample(key)
    \/ \E f \in 0..(ViewFactors - 1) : MultipleSetSelectedFactor(f)
    \/ \E path \in HomePaths : HomeRegressionChange(path)
    \/ \E key \in Range(DatasetKeys(route, selectedRegression)) :
          HomeSetSelectedDataset(key)
    \/ \E f \in 0..(HomeFactors - 1) : HomeSetSelectedFactor(f)
    \/ \E v \in SliderStops : HomeSetNoiseLevel(v)

SpecViews == InitViews /\ [][NextViews]_vars

\* Home is mounted and has rendered its chart and its panel
InitHome ==
    /\ KMIdle /\ FitIdle /\ PoIdle /\ DsIdle
    /\ \E load \in Loads : medicalExamples = LoadExamples(load)
    /\ route = "/"
    /\ selectedRegression = InitialRegression(route)
    /\ selectedDataset = InitialDataset(route)
    /\ selectedFactor = 0
    /\ noiseLevel = Num(1)
    /\ \E u \in Streams :
          svg = Chart(route, selectedRegression, selectedDataset, 0, Num(1), u)
    /\ memo = NoRender
    /\ panel \in Panels(selectedRegression, selectedFactor)

NextHome ==
    \/ \E path \in RegressionPaths : HomePanelRegressionChange(path)
    \/ \E key \in Range(DatasetKeys(route, selectedRegression)) :
          HomePanelSetSelectedDataset(key)
    \/ \E f \in PanelFactors : HomePanelSetSelectedFactor(f)
    \/ \E v \in PanelSliderStops : HomePanelSetNoiseLevel(v)

SpecHome == InitHome /\ [][NextHome]_vars

\* Home with its five types and the standalone multiple view, which also
\* offers datasets and factors: App mounts the one or the other
SelectionRoutes == {"/", "/multiple"}
NavigateRendering(rt) ==
    /\ rt # route
    /\ CommitWith(rt, InitialRegression(rt), InitialDataset(rt), 0, Num(1),
                  IF rt = "/" THEN Panels(InitialRegression(rt), 0) ELSE {NoPanel})
NextSelections ==
    \/ NextHome
    \/ \E rt \in SelectionRoutes : NavigateRendering(rt)
    \/ \E key \in Range(DatasetKeys("/multiple", "")) : MultipleSetSelectedExample(key)
    \/ \E f \in 0..(ViewFactors - 1) : MultipleSetSelectedFactor(f)
SpecSelections == InitHome /\ [][NextSelections]_vars

\* the displays of a line or curve computed from data: the fit of each
\* display on sequences of its own, and Home switching between its multiple
\* and its logistic chart (a handler runs when no effect is running)
CurvePaths == {"/multiple", "/logistic"}
InitDisplays == InitViews /\ route = "/"
NextDisplays ==
    \/ FitAnyIn
    \/ FitEnd
    \/ fitPc = "idle" /\ \E path \in CurvePaths : HomeRegressionChange(path)
SpecDisplays == InitDisplays /\ [][NextDisplays]_vars

-----------------------------------------------------------------------------
(* Properties of the views *)

\* the line on screen: the data of the one path of a linear chart
DrawnLine == Paths(svg)[1].data
\* memo holds an earlier render of the same view with the same selections
SameSelectionAsMemo ==
    /\ ShowsLinearChart
    /\ memo.route = route /\ memo.regression = selectedRegression
    /\ memo.dataset = selectedDataset /\ memo.noise = noiseLevel

\* C9 as claimed: two renders of the linear view with the same selected
\* dataset and the same noise level produce the same fitted line.
C9_SameSelectionSameLine == SameSelectionAsMemo => memo.line = DrawnLine

\* C9 amended: two renders of the linear view with the same selected dataset
\* and noise level 0 produce the same fitted line (above 0 every render adds
\* fresh random noise to y before fitting).
C9_ZeroNoiseSameLine ==
    (SameSelectionAsMemo /\ noiseLevel = Num(0)) => memo.line = DrawnLine

C9_Witness ==
    /\ SameSelectionAsMemo /\ noiseLevel = Num(0) /\ route = "/linear"
    /\ memo.line = DrawnLine
    /\ \A k \in 1..2 : IsFinite(DrawnLine[k][2])

\* the x values of the samples a render has drawn as circles
SampleXs(circles) == [i \in 1..Len(circles) |-> circles[i].data[1]]
\* memo holds an earlier render of the same view with the same dataset
SameDatasetAsMemo ==
    /\ ShowsLinearChart
    /\ memo.route = route /\ memo.regression = selectedRegression
    /\ memo.dataset = selectedDataset

\* C17 as claimed: datasets are generated for one rendering pass and discarded
\* after it, so a later render of the same view and dataset works on newly
\* generated samples: it does not show the samples of the earlier render.
C17_FreshSamplesEachRender ==
    SameDatasetAsMemo => SampleXs(memo.points) # SampleXs(Circles(svg))

\* C17 amended: the datasets are generated once, when the module is loaded,
\* and kept: every later render of the same view and dataset, whatever was
\* selected in between, works on the same stored samples (in the linear charts
\* the same x values, with y perturbed anew by the noise of that render).
C17_StoredSamplesReused ==
    /\ SameDatasetAsMemo => SampleXs(memo.points) = SampleXs(Circles(svg))
    /\ ShowsLinearChart =>
          SampleXs(Circles(svg)) =
              LET stored == IF route = "/"
                            THEN medicalExamples.Home.linear[selectedDataset]
                            ELSE medicalExamples.LinearRegression[selectedDataset]
              IN  [i \in 1..Len(stored) |-> stored[i].x]
\* a second render of bpAge in the linear view, at another noise level and with
\* another fitted line, shows the x values of the first
C17_Witness ==
    /\ SameDatasetAsMemo /\ route = "/linear" /\ selectedDataset = "bpAge"
    /\ memo.noise # noiseLevel /\ memo.line # DrawnLine
    /\ memo.points # Circles(svg)
    /\ SampleXs(memo.points) = SampleXs(Circles(svg))

\* lo <= x <= hi
Within(x, lo, hi) == Leq(lo, x) /\ Leq(x, hi)
\* the dataset the linear chart on screen was drawn from
StoredShown ==
    IF route = "/" THEN medicalExamples.Home.linear[selectedDataset]
    ELSE medicalExamples.LinearRegression[selectedDataset]
\* the points and the line of the stored dataset itself
StoredPoints(stored) ==
    [i \in 1..Len(stored) |-> Element("circle", <<stored[i].x, stored[i].y>>)]
StoredLine(stored) ==
    LET X == [i \in 1..Len(stored) |-> stored[i].x]
        Y == [i \in 1..Len(stored) |-> stored[i].y]
    IN  LinearFit(X, Y, ScaleDomain(X)).line
\* y of displayed point i minus y of stored sample i
Displacement(circles, stored, i) == Sub(circles[i].data[2], stored[i].y)

\* C28: in the linear views the noise level is in [0, 2] (a slider stop,
\* initially 1); displayed point i has the x of stored sample i and a y at
\* most 10 * noiseLevel away from the stored y; at noise level 0 the points
\* and the fitted line are those of the stored dataset; and no render
\* modifies the stored datasets.
C28_NoiseBounded ==
    /\ noiseLevel = Num(1)
    /\ [](ShowsLinearChart =>
            /\ Within(noiseLevel, Num(0), Num(2))
            /\ Len(Circles(svg)) = Len(StoredShown)
            /\ \A i \in 1..Len(StoredShown) :
                  /\ Circles(svg)[i].data[1] = StoredShown[i].x
                  /\ Within(Displacement(Circles(svg), StoredShown, i),
                            Neg(Mul(Num(10), noiseLevel)), Mul(Num(10), noiseLevel))
            /\ noiseLevel = Num(0) =>
                  /\ Circles(svg) = StoredPoints(StoredShown)
                  /\ DrawnLine = StoredLine(StoredShown))
    /\ [][medicalExamples' = medicalExamples]_vars

\* at noise level 2 a point sits a full 20 below its stored y, after a render
\* of the same dataset at noise level 0 that showed the stored points
C28_Witness ==
    /\ SameDatasetAsMemo /\ noiseLevel = Num(2) /\ memo.noise = Num(0)
    /\ memo.points = StoredPoints(StoredShown)
    /\ memo.line = StoredLine(StoredShown)
    /\ \E i \in 1..Len(StoredShown) :
          Displacement(Circles(svg), StoredShown, i) = Num(-20)
    /\ \E i \in 1..Len(StoredShown) :
          Displacement(Circles(svg), StoredShown, i) = Num(0)

\* the fixed range of every statistic the panel of a regression type shows
PanelInRange(shown) ==
    CASE shown.key = "linear" ->
            /\ Within(shown.r2, Norm(3, 4), Norm(17, 20))
            /\ Within(shown.pValue, Norm(1, 1000), Norm(2, 1000))
            /\ Within(shown.slope, Norm(1, 2), Norm(7, 10))
      [] shown.key = "multiple" ->
            /\ Within(shown.correlation, Norm(2, 5), Norm(4, 5))
            /\ Within(shown.pValue, Norm(1, 1000), Norm(11, 1000))
      [] shown.key = "logistic" ->
            /\ Within(shown.auc, Norm(4, 5), Norm(9, 10))
            /\ Within(shown.accuracy, Norm(3, 4), Norm(17, 20))
      [] shown.key = "cox" ->
            /\ Within(shown.medianSurvival, Num(30), Num(40))
            /\ Within(shown.pValue, Norm(1, 1000), Norm(11, 1000))
      [] shown.key = "poisson" ->
            Within(shown.dispersion, Norm(11, 10), Norm(7, 5))
\* the slope of the line on screen
DrawnSlope ==
    Div(Sub(DrawnLine[2][2], DrawnLine[1][2]), Sub(DrawnLine[2][1], DrawnLine[1][1]))

\* C18: the statistics of Home's interpretation panel do not depend on the
\* displayed data. In every render the panel is the one of the selected
\* regression type, each statistic lies in the fixed range of its type (the
\* linear R2 in [0.75, 0.85], the shown slope in [0.5, 0.7]), the panel is
\* determined by the type, the selected factor and its own random draws, and
\* two linear renders with the same draws show the same panel whatever their
\* datasets, noise levels and drawn lines are.
C18_PanelIndependentOfData ==
    route = "/" =>
        /\ panel.key = RegressionKey(selectedRegression)
        /\ PanelInRange(panel)
        /\ panel = Panel(panel.key, selectedFactor, panel.draws)
        /\ (ShowsLinearChart /\ memo.regression = selectedRegression
                /\ memo.panel.draws = panel.draws) => memo.panel = panel

\* two linear renders of Home with different datasets, noise levels and
\* drawn lines show the same panel, whose slope is not the drawn line's;
\* the shown R2 is the upper end of its range
C18_Witness ==
    /\ route = "/" /\ ShowsLinearChart /\ memo.regression = selectedRegression
    /\ memo.dataset # selectedDataset /\ memo.noise # noiseLevel
    /\ memo.line # DrawnLine
    /\ memo.panel = panel
    /\ panel.r2 = Norm(17, 20)
    /\ IsFinite(DrawnSlope) /\ panel.slope # DrawnSlope

\* C19 as claimed: in Home's logistic chart, for every heart-disease dataset
\* the generator can produce, the dashed decision boundary has at least one
\* grid point, and at every point of it sigmoid(age/20 + cholesterol/100 - 15)
\* is within 0.01 of 0.5.
C19_BoundaryShowsEvenOdds ==
    (route = "/" /\ selectedRegression = "/logistic") =>
        /\ Len(Paths(svg)) = 1
        /\ Len(Paths(svg)[1].data) >= 1
        /\ \A k \in 1..Len(Paths(svg)[1].data) :
              LET pt == Paths(svg)[1].data[k]
              IN  NearHalf(Sigmoid(RiskScore(pt[1], pt[2])))

\* the fields a sample has (a survival record of the model carries the time
\* field of the other schema as undefined)
Fields(d) ==
    {f \in DOMAIN d : ~(f \in {"survivalTime", "eventTime"} /\ d[f] = Undefined)}
\* data has the length declared for it, scaled, and one schema
WellFormed(data, length) ==
    /\ length \in {50, 100}
    /\ Len(data) = Scaled(length)
    /\ \A i \in 1..Len(data) : Fields(data[i]) = Fields(data[1])
Modules == {"LinearRegression", "MultipleRegression", "LogisticRegression",
            "CoxRegression", "PoissonRegression"}

\* C24: every dataset of every module, and of every regression type of Home,
\* has the length its initialiser declares, which is 50 or 100 (scaled to the
\* model's sample count), and all its samples have the same set of fields;
\* this stays so through every selection change.
C24_FixedLengthOneSchema ==
    medicalExamples # <<>> =>
        /\ DOMAIN medicalExamples = Modules \cup {"Home"}
        /\ \A mod \in Modules : \A key \in DOMAIN medicalExamples[mod] :
              WellFormed(medicalExamples[mod][key], DeclaredLength[mod][key])
        /\ \A reg \in DOMAIN medicalExamples.Home :
              \A key \in DOMAIN medicalExamples.Home[reg] :
                  WellFormed(medicalExamples.Home[reg][key],
                             DeclaredLength.Home[reg][key])

\* Home shows its poisson chart after selection changes, an earlier linear
\* render is remembered, and the sorted survival dataset of the Cox view has
\* records of both censoring states
C24_Witness ==
    /\ route = "/" /\ selectedRegression = "/poisson" /\ memo # NoRender
    /\ Len(medicalExamples.PoissonRegression.adverseEvents) = SampleCount
    /\ \E i, j \in 1..SampleCount :
          /\ medicalExamples.CoxRegression.heartFailure[i].censored
          /\ ~medicalExamples.CoxRegression.heartFailure[j].censored

\* every display's copy of the fit gives, on the sequences of the run that
\* has finished, the slope and the intercept that run has computed
SameFitInEveryDisplay ==
    fitPc = "done" =>
        \A view \in FitViews :
            LET other == FitIn(view, xValues, yValues, ScaleDomain(xValues))
            IN  other.slope = fit.slope /\ other.intercept = fit.intercept
\* the columns of the logistic chart's points
ShownAges == [i \in 1..Len(Circles(svg)) |-> Circles(svg)[i].data[1]]
ShownCholesterol == [i \in 1..Len(Circles(svg)) |-> Circles(svg)[i].data[2]]
ShowsLogisticChart == route = "/" /\ selectedRegression = "/logistic"

\* C23 as claimed: given the same X and Y, the fits of the standalone linear
\* view, the standalone multiple view, Home's linear branch and Home's
\* multiple branch give the same slope and intercept, and the decision
\* boundary of the logistic chart is derived from that estimator: it is the
\* line the estimator fits to the chart's points.
C23_BoundaryFromEstimator ==
    /\ SameFitInEveryDisplay
    /\ ShowsLogisticChart =>
          Paths(svg)[1].data
             = LinearFit(ShownAges, ShownCholesterol, ScaleDomain(ShownAges)).line

\* C23 amended: the four line-fitting displays give the same slope and
\* intercept on the same X and Y; the decision boundary of the logistic chart
\* does not come from the estimator: it is the set of grid points at which
\* the fixed function sigmoid(age/20 + cholesterol/100 - 15) is within 0.01
\* of 0.5, over the ranges of the chart's points.
C23_SameFitBoundaryFromFixedFunction ==
    /\ SameFitInEveryDisplay
    /\ ShowsLogisticChart =>
          /\ Len(Paths(svg)) = 1
          /\ \A k \in 1..Len(Paths(svg)[1].data) :
                LET pt == Paths(svg)[1].data[k]
                IN  /\ NearHalf(Sigmoid(RiskScore(pt[1], pt[2])))
                    /\ Leq(MinSeq(ShownAges), pt[1]) /\ Leq(pt[1], MaxSeq(ShownAges))
          /\ Paths(svg)[1].data
                # LinearFit(ShownAges, ShownCholesterol, ScaleDomain(ShownAges)).line

\* Home's multiple branch has fitted a line with a slope other than 0 to
\* sequences of MaxN values while Home shows its logistic chart
C23_Witness ==
    /\ fitPc = "done" /\ fitView = "Home.multiple" /\ Len(xValues) = MaxN
    /\ IsFinite(fit.slope) /\ fit.slope # Num(0) /\ fit.intercept # Num(0)
    /\ ShowsLogisticChart /\ Len(Circles(svg)) = SampleCount

\* the selectable factors' columns and the outcome column, by field name
FactorFields ==
    IF route = "/"
    THEN <<"height", "weight", "age", "coffeePerDay", "sleepHours", "isMarried">>
    ELSE IF selectedDataset = "bmiFactors" THEN <<"height", "weight", "age">>
    ELSE <<"age", "severity", "comorbidities">>
OutcomeField == IF selectedDataset = "bmiFactors" THEN "bmi" ELSE "stayDuration"
ShownExample ==
    IF route = "/" THEN medicalExamples.Home.multiple[selectedDataset]
    ELSE medicalExamples.MultipleRegression[selectedDataset]
\* the line of the simple estimator on the selected factor's column alone
SingleFactorLine ==
    LET X == [i \in 1..Len(ShownExample) |->
                 ShownExample[i][FactorFields[selectedFactor + 1]]]
        Y == [i \in 1..Len(ShownExample) |-> ShownExample[i][OutcomeField]]
    IN  LinearFit(X, Y, ScaleDomain(X)).line
OneFittedLine ==
    /\ Len(Paths(svg)) = 1 /\ Lines(svg) = <<>>
    /\ DrawnLine = SingleFactorLine

\* C10 as claimed: in the multiple-regression scenario every selectable factor
\* of every dataset gets the line of the simple estimator applied to that
\* factor's column against the outcome column; no selectable factor is left
\* without a fitted line.
C10_EveryFactorFitted ==
    ShowsMultipleChart =>
        /\ selectedFactor \in 0..(Len(FactorFields) - 1)
        /\ OneFittedLine

\* C10 amended: the same, except for Home's binary marital-status factor
\* (index 5), for which no line is fitted and two group-mean lines are drawn.
C10_EveryFactorButMaritalFitted ==
    ShowsMultipleChart =>
        /\ selectedFactor \in 0..(Len(FactorFields) - 1)
        /\ IF route = "/" /\ selectedFactor = 5
           THEN Paths(svg) = <<>> /\ Len(Lines(svg)) = 2
           ELSE OneFittedLine

C10_Witness ==
    /\ route = "/" /\ ShowsMultipleChart /\ selectedFactor = 4
    /\ OneFittedLine
    /\ \A k \in 1..2 : IsFinite(DrawnLine[k][2])
    /\ DrawnLine[1][2] # DrawnLine[2][2]

Groups(elements) == LET is(e) == IsTag("g", e) IN SelectSeq(elements, is)
\* the censored samples of the dataset Home shows
CensoredShown ==
    LET data == medicalExamples.Home[RegressionKey(selectedRegression)][selectedDataset]
    IN  Cardinality({i \in 1..Len(data) : data[i].censored})
ShowsCoxChart == route = "/" /\ selectedRegression = "/cox"
\* the <svg> holds what one run of the effect draws for the current selection
LatestRenderOnly ==
    \E u \in Streams :
        svg = Chart(route, selectedRegression, selectedDataset, selectedFactor,
                    noiseLevel, u)

\* C27 as claimed: after any sequence of selection or noise changes the chart
\* holds only the elements of the most recent render, which are one set of
\* axes, one point per sample and at most one fitted line or curve.
C27_OnePointPerSample ==
    route = "/" =>
        /\ LatestRenderOnly
        /\ Len(Groups(svg)) = 2
        /\ Len(Circles(svg)) = SampleCount
        /\ Len(Paths(svg)) + Len(Lines(svg)) <= 1

\* C27 amended: the chart holds only the elements of the most recent render:
\* one set of axes; one point per sample, except in the survival chart,
\* which marks the censored samples only; and one line or curve, except for
\* Home's marital-status factor, which draws the two group-mean lines
\* instead.
C27_LatestRenderOnly ==
    route = "/" =>
        /\ LatestRenderOnly
        /\ Len(Groups(svg)) = 2
        /\ Len(Circles(svg)) = IF ShowsCoxChart THEN CensoredShown ELSE SampleCount
        /\ IF ShowsMultipleChart /\ selectedFactor = 5
           THEN Paths(svg) = <<>> /\ Len(Lines(svg)) = 2
           ELSE Len(Paths(svg)) = 1 /\ Lines(svg) = <<>>

\* the survival chart is on screen after a linear chart and marks fewer
\* samples than the dataset has
C27_Witness ==
    /\ ShowsCoxChart /\ memo.regression = "/linear"
    /\ Len(Circles(svg)) < SampleCount /\ Len(Circles(svg)) >= 1
    /\ Len(Paths(svg)) = 1 /\ Len(Paths(svg)[1].data) = SampleCount

\* every record of the input has a survivalTime field
CarriesSurvivalTime(data) == \A i \in 1..Len(data) : data[i].survivalTime # Undefined
\* the copy of the estimator that did not make the run
OtherCopy(impl) == IF impl = "cox" THEN "home" ELSE "cox"

\* C29: on every input whose records carry survivalTime, the inline
\* computation of Home and calculateKaplanMeier of the Cox view produce the
\* same sequence of points: what one copy has pushed after each record is
\* what the other copy pushes for the same records, and so are the results.
C29_CopiesAgree ==
    (kmPc \in {"loop", "done"} /\ CarriesSurvivalTime(kmData)) =>
        /\ survival = KMFold(OtherCopy(kmImpl), kmData, kmI - 1).survival
        /\ KMCurve("home", kmData) = KMCurve("cox", kmData)

\* calculateKaplanMeier has returned three points for three cancerSurvival
\* records, censored and not, which are the points of Home's copy
C29_Witness ==
    /\ kmPc = "done" /\ kmImpl = "cox" /\ Len(kmData) = MaxLen
    /\ CarriesSurvivalTime(kmData)
    /\ kmData[1].censored /\ ~kmData[2].censored
    /\ kmData[1].survivalTime # kmData[2].survivalTime
    /\ survival = KMCurve("home", kmData)
    /\ survival[2].probability # Num(1)

\* the datasets the mounted component offers: medicalExamples of its module,
\* in Home medicalExamples[regressionKey]
OfferedDatasets ==
    CASE route = "/linear" -> medicalExamples.LinearRegression
      [] route = "/multiple" -> medicalExamples.MultipleRegression
      [] route = "/" -> medicalExamples.Home[RegressionKey(selectedRegression)]

\* C26: after any sequence of selections the selected dataset is one of the
\* datasets of the selected regression type, and where a factor list is
\* offered (the multiple type) the selected factor is an index into the
\* factor list of the selected dataset; a regression-type change in Home
\* selects the first dataset of the new type and leaves the selected factor
\* and the noise level as they were.
C26_SelectionsValid ==
    /\ [](/\ selectedDataset \in DOMAIN OfferedDatasets
          /\ selectedDataset \in Range(DatasetKeys(route, selectedRegression))
          /\ ShowsMultipleChart => selectedFactor \in 0..(Len(FactorFields) - 1))
    /\ [][(route = "/" /\ route' = "/" /\ selectedRegression' # selectedRegression) =>
              /\ selectedDataset' = DatasetKeys("/", selectedRegression')[1]
              /\ selectedFactor' = selectedFactor
              /\ noiseLevel' = noiseLevel]_vars

\* Home shows the cox type with its dataset while the factor and the noise
\* level chosen under other types are still selected
C26_Witness ==
    /\ route = "/" /\ selectedRegression = "/cox"
    /\ selectedDataset = "cancerSurvival"
    /\ selectedFactor = 5 /\ noiseLevel = Num(0)
    /\ memo.route = "/" /\ memo.regression = "/linear"

-----------------------------------------------------------------------------
InitKM == KMIdle /\ FitIdle /\ ViewsIdle /\ PoIdle /\ DsIdle
NextKM == KMCallCox \/ KMCallHome \/ KMStep \/ KMReturn
SpecKM == InitKM /\ [][NextKM]_vars

InitFit == KMIdle /\ FitIdle /\ ViewsIdle /\ PoIdle /\ DsIdle
NextFit == FitAny \/ FitEnd
SpecFit == InitFit /\ [][NextFit]_vars

InitPoisson == KMIdle /\ FitIdle /\ ViewsIdle /\ PoIdle /\ DsIdle
NextPoisson == PoCallAny \/ PoBodyBelowOne \/ PoBodyOne \/ PoReturn
InitData == KMIdle /\ FitIdle /\ ViewsIdle /\ PoIdle /\ DsIdle
NextData ==
    \/ DsBeginAny \/ DsRecord \/ DsFinish
    \/ KMCallData \/ KMStep \/ KMReturn
    \/ HomeShowLogistic
SpecData == InitData /\ [][NextData]_vars

SpecPoisson == InitPoisson /\ [][NextPoisson]_vars
\* the call runs to completion, and the random source does not return 1 for ever
SpecPoissonFair ==
    SpecPoisson /\ WF_vars(PoBodyBelowOne) /\ WF_vars(PoReturn)

====
